---- MODULE Spec2Model ----
(***************************************************************************)
(* A model of semgrepai's validation pipeline.                             *)
(*                                                                         *)
(*   SpecRL        async_utils/rate_limiter.py: AsyncRateLimiter, used     *)
(*                 through `async with limiter` and execute_with_retry.    *)
(*   SpecBackoff   one task of the same, under settings that vary the      *)
(*                 backoff delays.                                         *)
(*   SpecRLWindow  the same, with a log of the acquisitions of the         *)
(*                 trailing 60 s.                                          *)
(*   SpecVal       validator.py: AIValidator.validate_findings,            *)
(*                 _process_batch, _validate_single_finding, on top of     *)
(*                 llm/providers.py: ResilientLLMWrapper.invoke.           *)
(*   SpecLLM       the same for at most one finding, under every backoff   *)
(*                 setting of LLMProviderConfig.                           *)
(*   SpecVBP       validator.py: ValidationBatchProcessor.process_findings *)
(*   SpecScan      api/services/scan_service.py: ScanService.run_scan and  *)
(*                 its AsyncProgressTracker, with api/routes/scans.py:     *)
(*                 cancel_scan.  SpecScanFair: the same, where the         *)
(*                 background task is run to its end.                      *)
(*   SpecCache     cache.py: ValidationCache.get, put, _auto_cleanup and   *)
(*                 cleanup, row by row.                                    *)
(*   SpecCacheSize cache.py: put and _auto_cleanup by the number of rows,  *)
(*                 up to the default settings.                             *)
(*   SpecCacheThreads  cache.py: get and put called by several threads,    *)
(*                 statement by statement.                                 *)
(*   SpecHash      cache.py: ValidationCache._compute_hash.                *)
(*   SpecTracker   async_utils/progress.py: AsyncProgressTracker and its   *)
(*                 observers.                                              *)
(*   SpecWrapper   llm/providers.py: ResilientLLMWrapper.invoke and its    *)
(*                 _check_rate_limits, called by several threads.          *)
(*   SpecManager   api/routes/websocket.py: ConnectionManager.connect,     *)
(*                 disconnect and broadcast_to_scan on one event loop.     *)
(*   SpecParallel  parallel.py: ParallelProcessor.process_batch.           *)
(*   SpecObservers the same under concurrent update(increment=1), with     *)
(*                 callbacks that suspend and a changing observer list.    *)
(*                                                                         *)
(* Each specification moves its own group of variables and leaves the      *)
(* other groups at their initial value.                                    *)
(***************************************************************************)
EXTENDS Integers, Sequences, FiniteSets, TLC

\* ------------------------------------------------------------------ bounds
\* Number of asyncio tasks that use one AsyncRateLimiter.
NumTasks == 2
\* Largest RateLimitConfig.max_concurrent tried.
MaxConcurrentBound == 2
\* Largest RateLimitConfig.requests_per_minute tried.
MaxRpmBound == 2
\* Largest RateLimitConfig.max_retries tried.
MaxRetriesBound == 2
\* Largest RateLimitConfig.max_retries tried where the backoff delays are
\* followed.
MaxBackoffRetries == 3
\* Longest list of findings given to a validation run.
MaxFindings == 2
\* Largest LLMConfig.batch_size tried.
MaxBatchSize == 2
\* Largest LLMConfig.max_workers tried.
MaxWorkers == 2
\* Largest LLMProviderConfig.max_retries tried.
MaxLLMRetries == 2
\* Number of different finding contents.
NumContents == 2
\* Longest list of findings a scan of ScanService finds.
MaxScanFindings == 3
\* Number of hashes whose rows of the cache table are followed one by one.
NumKeys == 2
\* Largest ValidationCache.max_entries tried, also the number of rows stored
\* under other hashes before the run.
MaxEntriesBound == 4
\* Largest ValidationCache.auto_cleanup_interval tried.
MaxInterval == 2
\* Number of calls made on the cache in one run.
MaxCalls == 3
\* Last tick of the clock.
MaxTime == 2
\* Number of worker threads that share one ValidationCache.
NumThreads == 2
\* Largest total given to an AsyncProgressTracker.
MaxTotal == 1
\* Number of observers (callbacks) of one AsyncProgressTracker.
NumObservers == 2
\* Number of asyncio tasks that call one AsyncProgressTracker.
NumCallers == 2
\* Number of calls made on one AsyncProgressTracker in a run.
MaxTrackerCalls == 3
\* Longest list of items given to ParallelProcessor.process_batch.
MaxItems == 3
\* Largest LLMProviderConfig.rate_limit_requests_per_minute tried.
MaxRateLimit == 2
\* Number of classifier requests one worker thread makes.
MaxRequests == 2
\* Number of websockets that connect for the scan.
NumConnections == 3
\* Number of calls of ConnectionManager.broadcast_to_scan.
MaxBroadcasts == 2

\* ------------------------------------------------------------------ helpers
Max(a, b) == IF a >= b THEN a ELSE b
Min(a, b) == IF a <= b THEN a ELSE b

RECURSIVE Pow2(_)
Pow2(n) == IF n = 0 THEN 1 ELSE 2 * Pow2(n - 1)

RECURSIVE SumSeq(_)
SumSeq(s) == IF s = <<>> THEN 0 ELSE Head(s) + SumSeq(Tail(s))

\* ===================================================== AsyncRateLimiter
VARIABLES
    config,         \* RateLimitConfig of the limiter
    semaphore,      \* _semaphore._value
    level,          \* _rate_limiter._level (AsyncLimiter leaky bucket)
    request_count,  \* _request_count
    task,           \* per asyncio task: its position in the code and its locals
    holds,          \* per task: it took a slot that no __aexit__ has given back
    recent          \* acquisitions per tick, newest first, over the trailing 60 s;
                    \* <<>> when the run keeps no such log (SpecRL)

rlVars == <<config, semaphore, level, request_count, task, holds, recent>>

Tasks == 1..NumTasks

\* Exceptions that reach execute_with_retry. RuntimeError is what Python raises
\* when a coroutine object that has already run is awaited again.
OpErrors == {"ConnectionError", "ValueError"}
AllErrors == OpErrors \cup {"RuntimeError", "CancelledError", "MaxRetriesExceeded"}

\* retry_exceptions: (Exception,) the default, or (ConnectionError,).
RetryExceptionSets ==
    { {"ConnectionError", "ValueError", "RuntimeError", "MaxRetriesExceeded"},
      {"ConnectionError"} }

\* Delays are counted in tenths of a second: base_delay = 1.0 and
\* max_delay = 60.0 are the defaults of RateLimitConfig.
DefaultBaseDelay == 10
DefaultMaxDelay == 600

\* Settings with the default delays and no jitter.
RateLimitConfig ==
    [ max_concurrent : 1..MaxConcurrentBound,
      requests_per_minute : 1..MaxRpmBound,
      max_retries : 1..MaxRetriesBound,
      retry_exceptions : RetryExceptionSets,
      base_delay : {DefaultBaseDelay},
      max_delay : {DefaultMaxDelay},
      jitter : {FALSE} ]

\* Settings that vary the delays: max_delay below base_delay, between
\* base_delay and 2 * base_delay, and out of reach; jitter on and off.
BackoffConfig ==
    [ max_concurrent : {MaxConcurrentBound},
      requests_per_minute : {MaxRpmBound},
      max_retries : 1..MaxBackoffRetries,
      retry_exceptions : RetryExceptionSets,
      base_delay : {DefaultBaseDelay, 2 * DefaultBaseDelay},
      max_delay : {DefaultBaseDelay, 3 * DefaultBaseDelay, DefaultMaxDelay},
      jitter : BOOLEAN ]

NewTask ==
    [ pc |-> "idle",            \* idle, sem_wait, tok_wait, body, sleep, done
      mode |-> "none",          \* "with": async with limiter; "retry": execute_with_retry
      attempt |-> 0,            \* loop variable of execute_with_retry
      last_exception |-> "None",
      awaited |-> FALSE,        \* the coroutine object has been awaited before
      opRuns |-> 0,             \* times the operation itself ran
      opErr |-> "None",         \* last error raised by the operation itself
      errs |-> <<>>,            \* error raised by each failed attempt, in order
      sleeps |-> 0,             \* backoff sleeps started
      delays |-> <<>>,          \* the delay of each of them, in order
      outcome |-> "none",       \* none, returned, raised
      exc |-> "None",           \* exception that left the call
      cause |-> "None" ]        \* its __cause__

\* A semaphore that hands out a slot it does not have.
SemaphoreFreeOffByOne(value) == value >= 0

\* asyncio.Semaphore.acquire returns without waiting iff a slot is free.
SemaphoreFree(value) == value > 0

\* An __aexit__ that keeps the slot.
ReleaseSlotNever(value) == value

\* AsyncRateLimiter.__aexit__: self._semaphore.release()
ReleaseSlot(value) == value + 1

\* AsyncLimiter(requests_per_minute, time_period=60).has_capacity(1)
HasCapacity(lv, cfg) == lv + 1 <= cfg.requests_per_minute

\* The bucket leaks requests_per_minute / 60 per second; one tick of the model
\* is 60 / requests_per_minute seconds, so it leaks 1 per tick.
Leak(lv) == Max(lv - 1, 0)

\* An `except` clause that catches every exception.
IsRetryableAny(e, cfg) == TRUE

\* `except retry_exceptions as e`
IsRetryable(e, cfg) == e \in cfg.retry_exceptions

\* `if attempt < self.config.max_retries - 1`
HasAttemptLeft(attempt, cfg) == attempt < cfg.max_retries - 1

\* _calculate_backoff without the cap max_delay.
BackoffUncapped(attempt, cfg, u) ==
    LET delay == cfg.base_delay * Pow2(attempt)
    IN  IF cfg.jitter THEN delay + u ELSE delay

\* _calculate_backoff(attempt); u is what random.uniform(0, delay * 0.1)
\* returned.
CalculateBackoff(attempt, cfg, u) ==
    LET delay == Min(cfg.base_delay * Pow2(attempt), cfg.max_delay)
    IN  IF cfg.jitter THEN delay + u ELSE delay

\* The values random.uniform(0, delay * 0.1) is drawn from, to the tenth of
\* a second.
Uniform(attempt, cfg) ==
    IF cfg.jitter
    THEN 0..(Min(cfg.base_delay * Pow2(attempt), cfg.max_delay) \div 10)
    ELSE {0}

\* The 60 s window in ticks.
WindowTicks(cfg) == cfg.requests_per_minute

\* The log of acquisitions: one more now; one tick later.
LogAcquisition(log) == IF log = <<>> THEN log ELSE [log EXCEPT ![1] = @ + 1]
LogTick(log) == [k \in 1..Len(log) |-> IF k = 1 THEN 0 ELSE log[k - 1]]

\* ===================================================== the other groups
VARIABLES
    findings,       \* the input list: the content (cache key) of each finding
    ai,             \* per input finding: its 'ai_validation' entry
    vcfg,           \* LLMConfig and LLMProviderConfig of the validator
    batch,          \* per batch: its future and the position of _process_batch
    calls,          \* per input finding: classifier (llm.invoke) calls made
    failures,       \* per input finding: classifier calls that raised
    delays,         \* per input finding: delays slept by ResilientLLMWrapper.invoke
    yieldq,         \* futures as_completed will yield, in that order
    validated,      \* validated_findings: indexes of input findings
    mainpc,         \* position of validate_findings
    hits,           \* ValidationCache.hits
    misses,         \* ValidationCache.misses
    future,         \* per input finding: its future in ValidationBatchProcessor
    shutdown_flag,  \* analyzers.code_analyzer.shutdown_flag is set
    scan,           \* the Scan row of ScanService.run_scan and its position
    tracker,        \* the AsyncProgressTracker of that run
    db,             \* table validation_cache: per tracked hash its row, if any
    others,         \* the rows of validation_cache under other hashes
    put_count,      \* ValidationCache._put_count
    now,            \* the clock, in ticks
    ccfg,           \* max_entries and auto_cleanup_interval of the instance
    last,           \* the last call on the cache and what it returned
    ncalls,         \* calls made on the cache so far
    size,           \* COUNT(*) of validation_cache, where only the count is kept
    thread,         \* per worker thread: its position in get or put and its locals
    fp,             \* two findings and the hashes _compute_hash gave them
    pt,             \* the fields of one AsyncProgressTracker
    callbacks,      \* its _callbacks list
    obs,            \* per observer: what its callback does
    ptask,          \* per asyncio task: its position in a call on the tracker
    pcalls,         \* calls made on the tracker so far
    seen,           \* per observer: the processed counts it received and
                    \* the ones it stored, in order
    pb,             \* one call of ParallelProcessor.process_batch
    lw,             \* one ResilientLLMWrapper and the threads that call it
    cm              \* one ConnectionManager and the tasks that use it

valVars == <<findings, ai, vcfg, batch, calls, failures, delays, yieldq, validated, mainpc>>
cacheVars == <<hits, misses>>
vbpVars == <<future, shutdown_flag>>
scanVars == <<scan, tracker>>
storeVars == <<db, others, put_count, now, ccfg, last, ncalls, size>>
thrVars == <<thread>>
fpVars == <<fp>>
progVars == <<pt, callbacks, obs, ptask, pcalls>>
extVars == <<seen, pb, lw, cm>>
vars == <<rlVars, valVars, cacheVars, vbpVars, scanVars, storeVars,
          thrVars, fpVars, progVars, extVars>>

RLFrame ==
    UNCHANGED <<valVars, cacheVars, vbpVars, scanVars, storeVars,
                thrVars, fpVars, progVars, extVars>>
ValFrame ==
    UNCHANGED <<rlVars, vbpVars, scanVars, storeVars, thrVars, fpVars, progVars, extVars>>
VBPFrame ==
    UNCHANGED <<rlVars, cacheVars, vcfg, batch, calls, failures, delays,
                scanVars, storeVars, thrVars, fpVars, progVars, extVars>>
ScanFrame ==
    UNCHANGED <<rlVars, valVars, cacheVars, vbpVars, storeVars,
                thrVars, fpVars, progVars, extVars>>
CacheFrame ==
    UNCHANGED <<rlVars, valVars, vbpVars, scanVars, thrVars, fpVars, progVars, extVars>>
ThreadFrame ==
    UNCHANGED <<rlVars, valVars, vbpVars, scanVars, fpVars, progVars, extVars>>
FpFrame ==
    UNCHANGED <<rlVars, valVars, cacheVars, vbpVars, scanVars, storeVars,
                thrVars, progVars, extVars>>
ProgFrame ==
    UNCHANGED <<rlVars, valVars, cacheVars, vbpVars, scanVars, storeVars,
                thrVars, fpVars, extVars>>
ObsFrame ==
    UNCHANGED <<rlVars, valVars, cacheVars, vbpVars, scanVars, storeVars,
                thrVars, fpVars, pb, lw, cm>>
PBFrame ==
    UNCHANGED <<rlVars, valVars, cacheVars, vbpVars, scanVars, storeVars,
                thrVars, fpVars, progVars, seen, lw, cm>>
LWFrame ==
    UNCHANGED <<rlVars, valVars, cacheVars, vbpVars, scanVars, storeVars,
                thrVars, fpVars, progVars, seen, pb, cm>>
CMFrame ==
    UNCHANGED <<rlVars, valVars, cacheVars, vbpVars, scanVars, storeVars,
                thrVars, fpVars, progVars, seen, pb, lw>>

\* AsyncRateLimiter.__init__
Limiter ==
    /\ config \in RateLimitConfig
    /\ semaphore = config.max_concurrent
    /\ level = 0
    /\ request_count = 0
    /\ task = [t \in Tasks |-> NewTask]
    /\ holds = [t \in Tasks |-> FALSE]

RLInit == Limiter /\ recent = <<>>
\* The limiter under the settings that vary the delays.
BackoffInit ==
    /\ config \in BackoffConfig
    /\ semaphore = config.max_concurrent
    /\ level = 0
    /\ request_count = 0
    /\ task = [t \in Tasks |-> NewTask]
    /\ holds = [t \in Tasks |-> FALSE]
    /\ recent = <<>>
RLWindowInit == Limiter /\ recent = [k \in 1..WindowTicks(config) |-> 0]

\* A task calls `async with limiter` ("with") or execute_with_retry ("retry")
\* and arrives at `await self._semaphore.acquire()` of __aenter__.
Start(t, m) ==
    /\ task[t].pc = "idle"
    /\ task' = [task EXCEPT ![t].pc = "sem_wait", ![t].mode = m]
    /\ UNCHANGED <<config, semaphore, level, request_count, holds, recent>>
    /\ RLFrame

\* __aenter__: await self._semaphore.acquire() returns.
AcquireSemaphore(t) ==
    /\ task[t].pc = "sem_wait"
    /\ SemaphoreFree(semaphore)
    /\ semaphore' = semaphore - 1
    /\ holds' = [holds EXCEPT ![t] = TRUE]
    /\ task' = [task EXCEPT ![t].pc = "tok_wait"]
    /\ UNCHANGED <<config, level, request_count, recent>>
    /\ RLFrame

\* __aenter__: await self._rate_limiter.acquire() returns, then
\* `async with self._lock: self._request_count += 1`; the body starts.
AcquireToken(t) ==
    /\ task[t].pc = "tok_wait"
    /\ HasCapacity(level, config)
    /\ level' = level + 1
    /\ request_count' = request_count + 1
    /\ recent' = LogAcquisition(recent)
    /\ task' = [task EXCEPT ![t].pc = "body"]
    /\ UNCHANGED <<config, semaphore, holds>>
    /\ RLFrame

\* What execute_with_retry does with an exception e that left `async with self`
\* (the slot is already released by __aexit__).
AfterError(r, e, cfg, u) ==
    LET r1 == [r EXCEPT !.errs = Append(@, e)] IN
    IF r.mode = "retry" /\ IsRetryable(e, cfg)
    THEN IF HasAttemptLeft(r.attempt, cfg)
         THEN [r1 EXCEPT !.last_exception = e, !.pc = "sleep", !.sleeps = @ + 1,
                         !.delays = Append(@, CalculateBackoff(r.attempt, cfg, u))]
         ELSE [r1 EXCEPT !.last_exception = e, !.pc = "done", !.outcome = "raised",
                         !.exc = "MaxRetriesExceeded", !.cause = e]
    ELSE [r1 EXCEPT !.pc = "done", !.outcome = "raised", !.exc = e]

\* `return await coro` ends. The first await runs the operation, which returns
\* or raises; awaiting the same coroutine object again raises RuntimeError
\* without running it. __aexit__ releases the slot in every case.
FinishBody(t, res) ==
    /\ task[t].pc = "body"
    /\ IF task[t].awaited THEN res = "RuntimeError" ELSE res \in OpErrors \cup {"ok"}
    /\ semaphore' = ReleaseSlot(semaphore)
    /\ holds' = [holds EXCEPT ![t] = FALSE]
    /\ LET r == [task[t] EXCEPT
                    !.awaited = TRUE,
                    !.opRuns = IF task[t].awaited THEN @ ELSE @ + 1,
                    !.opErr = IF task[t].awaited \/ res = "ok" THEN @ ELSE res]
       IN \E u \in Uniform(task[t].attempt, config) :
            task' = [task EXCEPT ![t] =
                    IF res = "ok"
                    THEN [r EXCEPT !.pc = "done", !.outcome = "returned"]
                    ELSE AfterError(r, res, config, u)]
    /\ UNCHANGED <<config, level, request_count, recent>>
    /\ RLFrame

\* `await asyncio.sleep(delay)` ends; the loop starts the next attempt.
WakeUp(t) ==
    /\ task[t].pc = "sleep"
    /\ task' = [task EXCEPT ![t].pc = "sem_wait", ![t].attempt = @ + 1]
    /\ UNCHANGED <<config, semaphore, level, request_count, holds, recent>>
    /\ RLFrame

\* The task is suspended at this point, so a cancellation can reach it there.
Suspended(t) ==
    \/ task[t].pc = "sem_wait" /\ ~SemaphoreFree(semaphore)
    \/ task[t].pc = "tok_wait" /\ ~HasCapacity(level, config)
    \/ task[t].pc = "body" /\ ~task[t].awaited
    \/ task[t].pc = "sleep"

\* Does the frame the CancelledError unwinds run __aexit__? Only the body of
\* `async with self` does: __aenter__ has not returned in sem_wait and tok_wait.
ExitRuns(pc) == pc = "body"

\* task.cancel(): CancelledError is raised at the suspension point.
Cancel(t) ==
    /\ Suspended(t)
    /\ IF ExitRuns(task[t].pc)
       THEN /\ semaphore' = ReleaseSlot(semaphore)
            /\ holds' = [holds EXCEPT ![t] = FALSE]
            /\ task' = [task EXCEPT ![t] =
                    AfterError([task[t] EXCEPT !.awaited = TRUE, !.opRuns = @ + 1],
                               "CancelledError", config, 0)]
       ELSE /\ UNCHANGED <<semaphore, holds>>
            /\ task' = [task EXCEPT ![t].pc = "done", ![t].outcome = "raised",
                                    ![t].exc = "CancelledError"]
    /\ UNCHANGED <<config, level, request_count, recent>>
    /\ RLFrame

\* 60 / requests_per_minute seconds pass.
Tick ==
    /\ level' = Leak(level)
    /\ recent' = LogTick(recent)
    /\ UNCHANGED <<config, semaphore, request_count, task, holds>>
    /\ RLFrame

RLNext ==
    \/ \E t \in Tasks, m \in {"with", "retry"} : Start(t, m)
    \/ \E t \in Tasks : AcquireSemaphore(t)
    \/ \E t \in Tasks : AcquireToken(t)
    \/ \E t \in Tasks, res \in OpErrors \cup {"ok", "RuntimeError"} : FinishBody(t, res)
    \/ \E t \in Tasks : WakeUp(t)
    \/ \E t \in Tasks : Cancel(t)
    \/ Tick

\* One task uses the limiter.
BackoffNext ==
    \/ \E m \in {"with", "retry"} : Start(1, m)
    \/ AcquireSemaphore(1)
    \/ AcquireToken(1)
    \/ \E res \in OpErrors \cup {"ok", "RuntimeError"} : FinishBody(1, res)
    \/ WakeUp(1)
    \/ Cancel(1)
    \/ Tick

\* ===================================================== AIValidator
\* Input lists up to renaming of contents: the first finding is content 1, and
\* a finding is either a repetition or the next new content.
NewContent(l) == \A i \in 1..Len(l) :
                    l[i] <= 1 + Cardinality({l[j] : j \in 1..(i - 1)})

FindingLists ==
    { l \in UNION { [1..n -> 1..NumContents] : n \in 0..MaxFindings } : NewContent(l) }

\* LLMConfig (batch_size, max_workers) and LLMProviderConfig (the rest), with
\* the backoff settings drawn from `backoffs`.
ValidatorConfig(backoffs) ==
    [ batch_size : 1..MaxBatchSize,
      max_workers : 1..MaxWorkers,
      max_retries : 0..MaxLLMRetries,
      backoff : backoffs ]

\* LLMProviderConfig's defaults: retry_delay = 1.0, retry_exponential_backoff =
\* True, max_retry_delay = 60.0 (delays in seconds).
DefaultRetryDelay == 1
DefaultMaxRetryDelay == 60
DefaultBackoff ==
    [ retry_delay |-> DefaultRetryDelay,
      retry_exponential_backoff |-> TRUE,
      max_retry_delay |-> DefaultMaxRetryDelay ]

\* Backoff settings tried for one finding: the cap far away or at the first
\* delay, exponential or constant.
Backoffs ==
    [ retry_delay : {DefaultRetryDelay},
      retry_exponential_backoff : BOOLEAN,
      max_retry_delay : {DefaultRetryDelay, DefaultMaxRetryDelay} ]

\* range(0, len(findings), batch_size): the number of batches, and the input
\* indexes findings[i:i + batch_size] of batch b (b = 1, 2, ...).
NumBatches(n, cfg) == (n + cfg.batch_size - 1) \div cfg.batch_size
BatchItems(b, n, cfg) ==
    [ k \in 1..Min(cfg.batch_size, n - (b - 1) * cfg.batch_size)
        |-> (b - 1) * cfg.batch_size + k ]

Batches == 1..NumBatches(Len(findings), vcfg)
Items(b) == BatchItems(b, Len(findings), vcfg)

NewBatch == [ state |-> "none",     \* none, queued, running, finished
              pos |-> 1,            \* finding of the batch being processed
              pc |-> "call",        \* call: before llm.invoke; in_llm: inside it
              retries |-> 0 ]       \* local of ResilientLLMWrapper.invoke

\* The 'ai_validation' dictionary: its verdict and its justification.
Validation(verdict, justification) ==
    [verdict |-> verdict, justification |-> justification]

\* A finding without the 'ai_validation' key.
NoValidation == Validation("None", <<>>)

\* _validate_single_finding, `except Exception as e`
ErrorValidation(e) == Validation("Error", <<"Error during validation", e>>)

\* _parse_validation_result: the parsed answer, or its own `except Exception`
ParsedValidation(answer) ==
    IF answer = "unparseable"
    THEN Validation("Error", <<"Error parsing validation result", "TypeError">>)
    ELSE Validation(answer, <<"justification">>)

\* A loop that gives up one attempt early.
RetriesExhaustedEarly(retries, cfg) == retries >= cfg.max_retries

\* ResilientLLMWrapper.invoke: `if retries > self.config.max_retries: raise`
RetriesExhausted(retries, cfg) == retries > cfg.max_retries


\* ResilientLLMWrapper.invoke: the delay slept after the retries-th failure
BackoffDelay(retries, cfg) ==
    IF cfg.backoff.retry_exponential_backoff
    THEN Min(cfg.backoff.retry_delay * Pow2(retries - 1), cfg.backoff.max_retry_delay)
    ELSE cfg.backoff.retry_delay

\* AIValidator.__init__ (ValidationCache.__init__ sets hits = misses = 0)
Validator ==
    /\ ai = [i \in 1..Len(findings) |-> NoValidation]
    /\ calls = [i \in 1..Len(findings) |-> 0]
    /\ failures = [i \in 1..Len(findings) |-> 0]
    /\ delays = [i \in 1..Len(findings) |-> <<>>]
    /\ batch = [b \in Batches |-> NewBatch]
    /\ yieldq = <<>>
    /\ validated = <<>>
    /\ mainpc = "start"
    /\ hits = 0
    /\ misses = 0

\* Lists of findings under the default backoff settings.
ValInit ==
    /\ findings \in FindingLists
    /\ vcfg \in ValidatorConfig({DefaultBackoff})
    /\ Validator

\* At most one finding, under every backoff setting.
LLMInit ==
    /\ findings \in {l \in FindingLists : Len(l) <= 1}
    /\ vcfg \in ValidatorConfig(Backoffs)
    /\ Validator

\* validate_findings up to the end of the submit loop: the cache counters are
\* reset and every batch is submitted to the executor.
SubmitBatches ==
    /\ mainpc = "start"
    /\ hits' = 0
    /\ misses' = 0
    /\ batch' = [b \in Batches |-> [batch[b] EXCEPT !.state = "queued"]]
    /\ mainpc' = "submitted"
    /\ UNCHANGED <<findings, ai, vcfg, calls, failures, delays, yieldq, validated>>
    /\ ValFrame

\* ThreadPoolExecutor: an idle worker thread takes the oldest queued batch;
\* at most max_workers threads exist.
Running == {b \in Batches : batch[b].state = "running"}

\* A pool that starts one thread too many.
WorkerFreeOffByOne(running, cfg) == Cardinality(running) <= cfg.max_workers

WorkerFree(running, cfg) == Cardinality(running) < cfg.max_workers

StartBatch(b) ==
    /\ batch[b].state = "queued"
    /\ \A c \in Batches : c < b => batch[c].state # "queued"
    /\ WorkerFree(Running, vcfg)
    /\ batch' = [batch EXCEPT ![b].state = "running"]
    /\ UNCHANGED <<findings, ai, vcfg, calls, failures, delays, yieldq, validated,
                   mainpc, hits, misses>>
    /\ ValFrame

\* The finding that batch b is processing.
Current(b) == Items(b)[batch[b].pos]

\* _process_batch: results.append(result) and the next iteration, or the
\* return of the batch's results (every finding of the batch, in order).
NextFinding(b) ==
    IF batch[b].pos < Len(Items(b))
    THEN [batch[b] EXCEPT !.pos = @ + 1, !.pc = "call", !.retries = 0]
    ELSE [batch[b] EXCEPT !.state = "finished", !.pc = "call", !.retries = 0]

\* as_completed yields a future that finishes while the loop runs after those
\* that finished earlier; one that finishes before as_completed is called is
\* found by that call.
YieldAfter(b) ==
    IF batch[b].pos = Len(Items(b)) /\ mainpc = "collect"
    THEN Append(yieldq, b)
    ELSE yieldq

\* _validate_single_finding reaches validation_chain.invoke and
\* ResilientLLMWrapper.invoke calls self.llm.invoke (first call or retry).
CallClassifier(b) ==
    /\ batch[b].state = "running"
    /\ batch[b].pc = "call"
    /\ batch' = [batch EXCEPT ![b].pc = "in_llm"]
    /\ calls' = [calls EXCEPT ![Current(b)] = @ + 1]
    /\ UNCHANGED <<findings, ai, vcfg, failures, delays, yieldq, validated,
                   mainpc, hits, misses>>
    /\ ValFrame

\* self.llm.invoke returns an answer: it is parsed and stored in the finding.
ClassifierReturns(b, answer) ==
    /\ batch[b].state = "running"
    /\ batch[b].pc = "in_llm"
    /\ ai' = [ai EXCEPT ![Current(b)] = ParsedValidation(answer)]
    /\ batch' = [batch EXCEPT ![b] = NextFinding(b)]
    /\ yieldq' = YieldAfter(b)
    /\ UNCHANGED <<findings, vcfg, calls, failures, delays, validated, mainpc,
                   hits, misses>>
    /\ ValFrame

\* self.llm.invoke raises: ResilientLLMWrapper.invoke sleeps and tries again,
\* or re-raises when the retries are used up, and _validate_single_finding
\* then stores the error verdict.
ClassifierFails(b) ==
    /\ batch[b].state = "running"
    /\ batch[b].pc = "in_llm"
    /\ failures' = [failures EXCEPT ![Current(b)] = @ + 1]
    /\ LET retries == batch[b].retries + 1 IN
       IF RetriesExhausted(retries, vcfg)
       THEN /\ ai' = [ai EXCEPT ![Current(b)] = ErrorValidation("LLMError")]
            /\ batch' = [batch EXCEPT ![b] = NextFinding(b)]
            /\ yieldq' = YieldAfter(b)
            /\ UNCHANGED delays
       ELSE /\ delays' = [delays EXCEPT
                            ![Current(b)] = Append(@, BackoffDelay(retries, vcfg))]
            /\ batch' = [batch EXCEPT ![b].pc = "call", ![b].retries = retries]
            /\ UNCHANGED <<ai, yieldq>>
    /\ UNCHANGED <<findings, vcfg, calls, validated, mainpc, hits, misses>>
    /\ ValFrame

\* _validate_single_finding raises before it reaches the classifier (the
\* finding's metadata cannot be formatted): its `except` stores the error verdict.
PrepareFails(b) ==
    /\ batch[b].state = "running"
    /\ batch[b].pc = "call"
    /\ batch[b].retries = 0
    /\ ai' = [ai EXCEPT ![Current(b)] = ErrorValidation("TypeError")]
    /\ batch' = [batch EXCEPT ![b] = NextFinding(b)]
    /\ yieldq' = YieldAfter(b)
    /\ UNCHANGED <<findings, vcfg, calls, failures, delays, validated, mainpc,
                   hits, misses>>
    /\ ValFrame

\* The orders in which the members of set S can be listed.
Orders(S) ==
    { q \in [1..Cardinality(S) -> S] : \A x \in S : \E k \in DOMAIN q : q[k] = x }

\* as_completed(futures) is called: the futures already finished are yielded
\* first, in no particular order (they are kept in a set).
EnterAsCompleted ==
    /\ mainpc = "submitted"
    /\ yieldq' \in Orders({b \in Batches : batch[b].state = "finished"})
    /\ mainpc' = "collect"
    /\ UNCHANGED <<findings, ai, vcfg, batch, calls, failures, delays, validated,
                   hits, misses>>
    /\ ValFrame

Collected == {b \in Batches : \E k \in 1..Len(validated) :
                \E j \in 1..Len(Items(b)) : Items(b)[j] = validated[k]}

\* One iteration of `for future in as_completed(futures)`:
\* validated_findings.extend(batch_results)
CollectBatch ==
    /\ mainpc = "collect"
    /\ yieldq # <<>>
    /\ validated' = validated \o Items(Head(yieldq))
    /\ yieldq' = Tail(yieldq)
    /\ UNCHANGED <<findings, ai, vcfg, batch, calls, failures, delays,
                   mainpc, hits, misses>>
    /\ ValFrame

\* _display_validation_statistics divides processing_time by total_findings.
StatisticsRaise(total) == total = 0

\* The loop over as_completed ends; the statistics are displayed and
\* validated_findings is returned.
ReturnValidated ==
    /\ mainpc = "collect"
    /\ Collected = Batches
    /\ mainpc' = IF StatisticsRaise(Len(findings)) THEN "ZeroDivisionError" ELSE "returned"
    /\ UNCHANGED <<findings, ai, vcfg, batch, calls, failures, delays, yieldq,
                   validated, hits, misses>>
    /\ ValFrame

ValNext ==
    \/ SubmitBatches
    \/ \E b \in Batches : StartBatch(b)
    \/ \E b \in Batches : CallClassifier(b)
    \/ \E b \in Batches, answer \in {"True Positive", "unparseable"} :
            ClassifierReturns(b, answer)
    \/ \E b \in Batches : ClassifierFails(b)
    \/ \E b \in Batches : PrepareFails(b)
    \/ EnterAsCompleted
    \/ CollectBatch
    \/ ReturnValidated

\* ===================================================== ValidationBatchProcessor
\* (the class of that name defined in validator.py)

\* AIValidator.__init__ creates the CodeAnalyzer, which clears shutdown_flag.
VBPInit ==
    /\ findings \in FindingLists
    /\ vcfg \in ValidatorConfig({DefaultBackoff})
    /\ ai = [i \in 1..Len(findings) |-> NoValidation]
    /\ future = [i \in 1..Len(findings) |-> "none"]  \* none, queued, running, raised
    /\ shutdown_flag = FALSE
    /\ yieldq = <<>>
    /\ validated = <<>>
    /\ mainpc = "start"

Inputs == 1..Len(findings)
RunningFutures == {i \in Inputs : future[i] = "running"}

\* process_findings up to the end of the submit comprehension.
SubmitFindings ==
    /\ mainpc = "start"
    /\ future' = [i \in Inputs |-> "queued"]
    /\ mainpc' = "submitted"
    /\ UNCHANGED <<findings, ai, yieldq, validated, shutdown_flag>>
    /\ VBPFrame

\* A worker thread of the executor takes the oldest queued finding and calls
\* _process_single_finding.
StartFinding(i) ==
    /\ future[i] = "queued"
    /\ \A j \in Inputs : j < i => future[j] # "queued"
    /\ WorkerFree(RunningFutures, vcfg)
    /\ future' = [future EXCEPT ![i] = "running"]
    /\ UNCHANGED <<findings, ai, yieldq, validated, mainpc, shutdown_flag>>
    /\ VBPFrame

\* _process_single_finding calls validator._validate_single_finding(finding,
\* self.progress, task_id); that method takes the finding alone, so the call
\* raises TypeError before it runs, and the `except` re-raises it.
ProcessSingleFinding(i) ==
    /\ future[i] = "running"
    /\ future' = [future EXCEPT ![i] = "raised"]
    /\ yieldq' = IF mainpc = "collect" THEN Append(yieldq, i) ELSE yieldq
    /\ UNCHANGED <<findings, ai, validated, mainpc, shutdown_flag>>
    /\ VBPFrame

\* handle_interrupt: SIGINT or SIGTERM arrives.
Interrupt ==
    /\ ~shutdown_flag
    /\ mainpc \in {"start", "submitted", "collect"}
    /\ shutdown_flag' = TRUE
    /\ UNCHANGED <<findings, ai, yieldq, validated, mainpc, future>>
    /\ VBPFrame

\* as_completed(future_to_finding) is called.
EnterAsCompletedFindings ==
    /\ mainpc = "submitted"
    /\ yieldq' \in Orders({i \in Inputs : future[i] = "raised"})
    /\ mainpc' = "collect"
    /\ UNCHANGED <<findings, ai, validated, future, shutdown_flag>>
    /\ VBPFrame

\* One iteration of `for future in as_completed(future_to_finding)`: break when
\* the flag is set; else future.result() raises and the original finding is
\* appended.
CollectFinding ==
    /\ mainpc = "collect"
    /\ yieldq # <<>>
    /\ yieldq' = Tail(yieldq)
    /\ IF shutdown_flag
       THEN mainpc' = "break" /\ UNCHANGED validated
       ELSE validated' = Append(validated, Head(yieldq)) /\ UNCHANGED mainpc
    /\ UNCHANGED <<findings, ai, future, shutdown_flag>>
    /\ VBPFrame

\* The loop ends, the executor's `with` block ends (it waits for every
\* submitted future) and processed_findings is returned.
ReturnProcessed ==
    /\ \/ mainpc = "collect" /\ yieldq = <<>>
       \/ mainpc = "break"
    /\ \A i \in Inputs : future[i] = "raised"
    /\ mainpc' = "returned"
    /\ UNCHANGED <<findings, ai, yieldq, validated, future, shutdown_flag>>
    /\ VBPFrame

VBPNext ==
    \/ SubmitFindings
    \/ \E i \in Inputs : StartFinding(i)
    \/ \E i \in Inputs : ProcessSingleFinding(i)
    \/ Interrupt
    \/ EnterAsCompletedFindings
    \/ CollectFinding
    \/ ReturnProcessed

\* ===================================================== ScanService.run_scan
ScanFindingLists ==
    { l \in UNION { [1..n -> 1..NumContents] : n \in 0..MaxScanFindings } : NewContent(l) }

\* The Scan row (status pending) before run_scan is called.
NewScan ==
    [ pc |-> "pending",             \* pending, scanner, validator, validate, done
      status |-> "pending",         \* ScanStatus
      total_findings |-> 0,
      validated_findings |-> 0,
      error_message |-> "None" ]

\* No AsyncProgressTracker exists.
NoTracker == [status |-> "none", processed |-> 0, total |-> 0]

\* AsyncProgressTracker.__init__
NewTracker(total) ==
    [ status |-> "pending", processed |-> 0, total |-> total,
      started_at |-> 0, error_message |-> "None", errors |-> 0 ]

ScanInit ==
    /\ findings \in ScanFindingLists
    /\ vcfg \in ValidatorConfig({DefaultBackoff})
    /\ scan = NewScan
    /\ tracker = NoTracker

\* run_scan: the scan is pending; it is set to running.
StartScan ==
    /\ scan.pc = "pending"
    /\ scan' = [scan EXCEPT !.pc = "scanner", !.status = "running"]
    /\ UNCHANGED tracker
    /\ ScanFrame

\* scanner.scan returns: without results the scan is completed with 0
\* findings; else the findings are counted and validation comes next.
ScannerReturns ==
    /\ scan.pc = "scanner"
    /\ scan' = IF findings = <<>>
               THEN [scan EXCEPT !.pc = "done", !.status = "completed"]
               ELSE [scan EXCEPT !.pc = "validator", !.total_findings = Len(findings)]
    /\ UNCHANGED tracker
    /\ ScanFrame

\* An `except Exception` branch of run_scan that forgets the status.
ScanFailedStaysRunning(row, message) ==
    [row EXCEPT !.pc = "done", !.error_message = message]

\* The `except Exception` branches of run_scan: the status becomes failed,
\* the message is stored, the row is committed and run_scan returns.
ScanFailed(row, message) ==
    [row EXCEPT !.pc = "done", !.status = "failed", !.error_message = message]

\* scanner.scan raises.
ScannerFails ==
    /\ scan.pc = "scanner"
    /\ scan' = ScanFailed(scan, "Semgrep scan failed")
    /\ UNCHANGED tracker
    /\ ScanFrame

\* validator = AIValidator(); progress_tracker = AsyncProgressTracker(...)
CreateTracker ==
    /\ scan.pc = "validator"
    /\ tracker' = NewTracker(Len(findings))
    /\ scan' = [scan EXCEPT !.pc = "validate"]
    /\ ScanFrame

\* await validator.validate_findings_async(findings_data, progress_tracker):
\* AIValidator has no such method (validator.py defines validate_findings
\* only), so the attribute lookup raises AttributeError, which
\* `except Exception` turns into a failed scan; nothing starts, updates or
\* completes the tracker.
ValidateFindingsAsync ==
    /\ scan.pc = "validate"
    /\ scan' = ScanFailed(scan, "AI validation failed")
    /\ UNCHANGED tracker
    /\ ScanFrame

\* routes/scans.py cancel_scan, in another request with its own session: a
\* scan whose row says running is set to cancelled (any other status gives
\* HTTP 400).  It runs while run_scan is suspended in an await: in the
\* commit or the broadcast after the status became running ("scanner") or
\* after the findings were counted ("validator").
CancelScan ==
    /\ scan.pc \in {"scanner", "validator"}
    /\ scan.status = "running"
    /\ scan' = [scan EXCEPT !.status = "cancelled"]
    /\ UNCHANGED tracker
    /\ ScanFrame

\* run_scan called for a scan that is not pending: it logs a warning and
\* returns.
RunScanNotPending ==
    /\ scan.pc = "done"
    /\ scan.status # "pending"
    /\ scan' = [scan EXCEPT !.pc = "returned"]
    /\ UNCHANGED tracker
    /\ ScanFrame

\* The steps of the background task run_scan.
RunScan ==
    \/ StartScan
    \/ ScannerReturns
    \/ ScannerFails
    \/ CreateTracker
    \/ ValidateFindingsAsync

ScanNext ==
    \/ StartScan
    \/ ScannerReturns
    \/ ScannerFails
    \/ CreateTracker
    \/ ValidateFindingsAsync
    \/ CancelScan
    \/ RunScanNotPending

\* ===================================================== ValidationCache
\* Ticks per day: a tick is half a day.
TicksPerDay == 2

\* Validation results that are stored, and their JSON text (the key and the
\* value of the object, in order).
Results == [verdict : {"True Positive", "False Positive"}]
Dumps(r) == <<"verdict", r.verdict>>
Loads(text) == [verdict |-> text[2]]

\* A row of validation_cache; NoRow: no row under that hash.
NoRow ==
    [ present |-> FALSE, validation_result |-> <<>>,
      created_at |-> 0, accessed_at |-> 0, access_count |-> 0 ]

\* The row INSERT OR REPLACE writes: both timestamps CURRENT_TIMESTAMP, and
\* access_count, which the statement does not name, its DEFAULT 1.
NewRow(r, t) ==
    [ present |-> TRUE, validation_result |-> Dumps(r),
      created_at |-> t, accessed_at |-> t, access_count |-> 1 ]

\* INSERT OR REPLACE over the row `old` (NoRow for a new hash)
Replace(old, r, t) == NewRow(r, t)

\* An UPDATE that forgets the access_count.
TouchTimeOnly(row, t) == [row EXCEPT !.accessed_at = t]

\* UPDATE ... SET accessed_at = CURRENT_TIMESTAMP, access_count = access_count + 1
Touch(row, t) == [row EXCEPT !.accessed_at = t, !.access_count = @ + 1]

\* The rows under other hashes are alike: written and last accessed at the
\* same tick, with the same access_count.
OtherRows(n, t, c) == [n |-> n, at |-> t, access_count |-> c]
NoOthers == OtherRows(0, 0, 0)
OthersRow == [NoRow EXCEPT !.present = TRUE, !.created_at = others.at,
                           !.accessed_at = others.at,
                           !.access_count = others.access_count]

Keys == DOMAIN db

Present(table) == {k \in DOMAIN table : table[k].present}

\* A SELECT without its WHERE clause: the first row of the table, whatever its
\* hash.
FetchoneAnyHash(table, k) ==
    IF Present(table) = {} THEN NoRow
    ELSE table[CHOOSE j \in Present(table) : \A i \in Present(table) : j <= i]

\* SELECT validation_result FROM validation_cache WHERE hash = ?; fetchone()
Fetchone(table, k) == table[k]

\* `if result`
Found(row) == row.present

\* SELECT COUNT(*) FROM validation_cache
Count(table, oth) == Cardinality(Present(table)) + oth.n

\* A trigger that fires one put late.
CheckDueLate(count, cfg) == count > cfg.auto_cleanup_interval

\* `if self._put_count >= self.auto_cleanup_interval`, after the increment
CheckDue(count, cfg) == count >= cfg.auto_cleanup_interval

\* `if current_size > self.max_entries`
OverLimit(current_size, cfg) == current_size > cfg.max_entries

\* int(current_size * 0.2)
EntriesToRemove(current_size) == current_size \div 5

\* An ORDER BY with its two columns swapped.
BeforeByCount(a, b) ==
    \/ a.access_count < b.access_count
    \/ a.access_count = b.access_count /\ a.accessed_at < b.accessed_at

\* ORDER BY accessed_at ASC, access_count ASC: row a comes strictly before b.
Before(a, b) ==
    \/ a.accessed_at < b.accessed_at
    \/ a.accessed_at = b.accessed_at /\ a.access_count < b.access_count

\* DELETE ... WHERE hash IN (SELECT hash ... ORDER BY ... LIMIT n): the sets E of
\* followed rows that can be deleted together with n - |E| of the other rows.
\* Rows that are equal in the order are taken in any order.
Evictable(table, oth, n) ==
    LET orow == [NoRow EXCEPT !.accessed_at = oth.at, !.access_count = oth.access_count]
    IN { E \in SUBSET Present(table) :
            LET m == n - Cardinality(E)
                kept == Present(table) \ E
            IN /\ m >= 0
               /\ m <= oth.n
               /\ \A r \in E, q \in kept : ~Before(table[q], table[r])
               /\ m > 0 => \A q \in kept : ~Before(table[q], orow)
               /\ m < oth.n => \A r \in E : ~Before(orow, table[r]) }

\* ValidationCache.__init__ on an empty directory, or on one that holds
\* MaxEntriesBound other rows, each written and then read once at tick 0.
StoredBefore == {NoOthers, OtherRows(MaxEntriesBound, 0, 2)}

CacheConfig ==
    [ max_entries : {1, MaxEntriesBound}, auto_cleanup_interval : 1..MaxInterval ]

\* No call has been made on the cache.
NoCall ==
    [ op |-> "none", key |-> 0, arg |-> <<>>, ret |-> <<>>, removed |-> 0,
      exc |-> "None" ]

CacheInit ==
    /\ ccfg \in CacheConfig
    /\ others \in StoredBefore
    /\ db = [k \in 1..NumKeys |-> NoRow]
    /\ put_count = 0
    /\ hits = 0
    /\ misses = 0
    /\ now = 0
    /\ last = NoCall
    /\ ncalls = 0
    /\ size = 0

\* ValidationCache.get(finding) for the finding whose hash is k.
Get(k) ==
    /\ ncalls < MaxCalls
    /\ ncalls' = ncalls + 1
    /\ LET result == Fetchone(db, k)
       IN IF Found(result)
          THEN /\ db' = [db EXCEPT ![k] = Touch(@, now)]
               /\ hits' = hits + 1
               /\ last' = [NoCall EXCEPT !.op = "get", !.key = k,
                                         !.ret = <<Loads(result.validation_result)>>]
               /\ UNCHANGED misses
          ELSE /\ misses' = misses + 1
               /\ last' = [NoCall EXCEPT !.op = "get", !.key = k]
               /\ UNCHANGED <<db, hits>>
    /\ UNCHANGED <<others, put_count, now, ccfg, size>>
    /\ CacheFrame

\* ValidationCache.put(finding, validation_result) with _auto_cleanup when it
\* is due.
Put(k, r) ==
    /\ ncalls < MaxCalls
    /\ ncalls' = ncalls + 1
    /\ LET written == [db EXCEPT ![k] = Replace(@, r, now)]
           current_size == Count(written, others)
           done == [NoCall EXCEPT !.op = "put", !.key = k, !.arg = <<r>>]
       IN IF CheckDue(put_count + 1, ccfg)
          THEN /\ put_count' = 0
               /\ IF OverLimit(current_size, ccfg)
                  THEN \E E \in Evictable(written, others, EntriesToRemove(current_size)) :
                        /\ db' = [j \in Keys |-> IF j \in E THEN NoRow ELSE written[j]]
                        /\ others' =
                            LET left == others.n - (EntriesToRemove(current_size)
                                                    - Cardinality(E))
                            IN IF left = 0 THEN NoOthers ELSE [others EXCEPT !.n = left]
                        /\ last' = [done EXCEPT !.removed = EntriesToRemove(current_size)]
                  ELSE db' = written /\ last' = done /\ UNCHANGED others
          ELSE /\ put_count' = put_count + 1
               /\ db' = written
               /\ last' = done
               /\ UNCHANGED others
    /\ UNCHANGED <<hits, misses, now, ccfg, size>>
    /\ CacheFrame

\* get while the database cannot be read: sqlite3.connect or the SELECT raises
\* inside `with self._get_db()`, which closes the connection and lets the
\* error pass; get has no try.
GetFails(k) ==
    /\ ncalls < MaxCalls
    /\ ncalls' = ncalls + 1
    /\ last' = [NoCall EXCEPT !.op = "get", !.key = k, !.exc = "DatabaseError"]
    /\ UNCHANGED <<db, others, put_count, now, ccfg, size, hits, misses>>
    /\ CacheFrame

\* put while the database cannot be written: the INSERT raises, the lines
\* after the with block are not reached.
PutFails(k, r) ==
    /\ ncalls < MaxCalls
    /\ ncalls' = ncalls + 1
    /\ last' = [NoCall EXCEPT !.op = "put", !.key = k, !.arg = <<r>>,
                              !.exc = "DatabaseError"]
    /\ UNCHANGED <<db, others, put_count, now, ccfg, size, hits, misses>>
    /\ CacheFrame

\* put whose INSERT works and whose _auto_cleanup fails: `except Exception`
\* in _auto_cleanup logs the error, put resets its counter and returns.
PutCleanupFails(k, r) ==
    /\ ncalls < MaxCalls
    /\ CheckDue(put_count + 1, ccfg)
    /\ ncalls' = ncalls + 1
    /\ db' = [db EXCEPT ![k] = Replace(@, r, now)]
    /\ put_count' = 0
    /\ last' = [NoCall EXCEPT !.op = "put", !.key = k, !.arg = <<r>>]
    /\ UNCHANGED <<others, now, ccfg, size, hits, misses>>
    /\ CacheFrame

\* The local time zones tried: UTC, and half a day ahead of UTC.
UtcOffsets == {0, 1}

Day(t) == t \div TicksPerDay

\* `created_at < ?` compares the text 'YYYY-MM-DD HH:MM:SS' that
\* CURRENT_TIMESTAMP stored with cutoff_date.isoformat(), 'YYYY-MM-DDTHH:MM:SS':
\* first the dates, and on equal dates ' ' is less than 'T'.
TextBefore(created_at, cutoff) == Day(created_at) <= Day(cutoff)

\* WHERE (created_at < ? AND access_count <= ?)
CleanupDeletes(row, cutoff, min_access_count) ==
    /\ TextBefore(row.created_at, cutoff)
    /\ row.access_count <= min_access_count

\* ValidationCache.cleanup(max_age_days, min_access_count) on a host whose
\* local time is utc_offset ahead; it ends without a return statement.
Cleanup(max_age_days, min_access_count, utc_offset) ==
    /\ ncalls < MaxCalls
    /\ ncalls' = ncalls + 1
    /\ LET cutoff == now + utc_offset - max_age_days * TicksPerDay
           gone == {k \in Present(db) : CleanupDeletes(db[k], cutoff, min_access_count)}
           othersGone == others.n > 0 /\ CleanupDeletes(OthersRow, cutoff, min_access_count)
       IN /\ db' = [k \in Keys |-> IF k \in gone THEN NoRow ELSE db[k]]
          /\ others' = IF othersGone THEN NoOthers ELSE others
          /\ last' = [NoCall EXCEPT
                        !.op = "cleanup", !.arg = <<max_age_days, min_access_count>>,
                        !.removed = Cardinality(gone) + IF othersGone THEN others.n ELSE 0]
    /\ UNCHANGED <<hits, misses, put_count, now, ccfg, size>>
    /\ CacheFrame

\* A DELETE that misses the rows under the followed hashes.
ClearedOthersOnly(table) == table

\* DELETE FROM validation_cache
Cleared(table) == [k \in DOMAIN table |-> NoRow]

\* ValidationCache.clear()
Clear ==
    /\ ncalls < MaxCalls
    /\ ncalls' = ncalls + 1
    /\ db' = Cleared(db)
    /\ others' = NoOthers
    /\ last' = [NoCall EXCEPT !.op = "clear", !.removed = Count(db, others)]
    /\ UNCHANGED <<hits, misses, put_count, now, ccfg, size>>
    /\ CacheFrame

\* The process ends and a new ValidationCache is made on the same cache_dir,
\* with the same max_entries and auto_cleanup_interval.
Reopen ==
    /\ ncalls < MaxCalls
    /\ ncalls' = ncalls + 1
    /\ hits' = 0
    /\ misses' = 0
    /\ put_count' = 0
    /\ UNCHANGED <<db, others, now, ccfg, last, size>>
    /\ CacheFrame

\* Half a day passes.
CacheTick ==
    /\ now < MaxTime
    /\ now' = now + 1
    /\ UNCHANGED <<db, others, put_count, ccfg, last, ncalls, size, hits, misses>>
    /\ CacheFrame

CacheNext ==
    \/ \E k \in Keys : Get(k)
    \/ \E k \in Keys, r \in Results : Put(k, r)
    \/ \E d \in 0..1, c \in 1..2, z \in UtcOffsets : Cleanup(d, c, z)
    \/ Clear
    \/ \E k \in Keys : GetFails(k)
    \/ \E k \in Keys, r \in Results : PutFails(k, r)
    \/ \E k \in Keys, r \in Results : PutCleanupFails(k, r)
    \/ Reopen
    \/ CacheTick

\* ----------------------------------------------- the cache by its row count
\* ValidationCache.__init__'s defaults: max_entries = 10000,
\* auto_cleanup_interval = 100.
DefaultMaxEntries == 10000
DefaultAutoCleanupInterval == 100
DefaultCacheConfig ==
    [ max_entries |-> DefaultMaxEntries,
      auto_cleanup_interval |-> DefaultAutoCleanupInterval ]

\* A table that holds 20% more rows than max_entries.
Overfull(cfg) == cfg.max_entries + cfg.max_entries \div 5

\* No put has been made.
NoPut == [op |-> "none", checked |-> FALSE, current_size |-> 0, removed |-> 0, nth |-> 0]

\* Calls made in one run: up to the first check with the default settings, and
\* MaxCalls more.
CallsLeft(n, cfg) == n < cfg.auto_cleanup_interval + MaxCalls

\* A directory with any number of rows up to an overfull table, under the
\* small settings; an overfull table under the defaults.
SizeInit ==
    /\ \/ ccfg \in CacheConfig /\ size \in 0..Overfull(ccfg)
       \/ ccfg = DefaultCacheConfig /\ size = Overfull(ccfg)
    /\ put_count = 0
    /\ last = NoPut
    /\ ncalls = 0

\* ValidationCache.put: INSERT OR REPLACE adds a row (new hash) or replaces
\* one; then the put counter and, when due, _auto_cleanup. `nth` counts the
\* puts since the last check or since the instance was made.
PutRow(new) ==
    /\ CallsLeft(ncalls, ccfg)
    /\ new \/ size > 0
    /\ ncalls' = ncalls + 1
    /\ LET current_size == IF new THEN size + 1 ELSE size
           nth == IF last.checked THEN 1 ELSE last.nth + 1
       IN IF CheckDue(put_count + 1, ccfg)
          THEN /\ put_count' = 0
               /\ LET removed == IF OverLimit(current_size, ccfg)
                                 THEN EntriesToRemove(current_size) ELSE 0
                  IN /\ size' = current_size - removed
                     /\ last' = [op |-> "put", checked |-> TRUE,
                                 current_size |-> current_size,
                                 removed |-> removed, nth |-> nth]
          ELSE /\ put_count' = put_count + 1
               /\ size' = current_size
               /\ last' = [op |-> "put", checked |-> FALSE,
                           current_size |-> current_size, removed |-> 0, nth |-> nth]
    /\ UNCHANGED <<db, others, now, ccfg, hits, misses>>
    /\ CacheFrame

\* The process ends and a new ValidationCache is made on the same cache_dir.
ReopenSized ==
    /\ CallsLeft(ncalls, ccfg)
    /\ ncalls' = ncalls + 1
    /\ put_count' = 0
    /\ last' = [NoPut EXCEPT !.op = "reopen"]
    /\ UNCHANGED <<db, others, now, ccfg, size, hits, misses>>
    /\ CacheFrame

SizeNext ==
    \/ \E new \in BOOLEAN : PutRow(new)
    \/ ReopenSized

\* ------------------------------------------- the cache under worker threads
\* get and put take no lock: a thread can be suspended between any two of
\* their statements, and between the load and the store of `self.x += 1`.
\* Every SQL statement is one step (SQLite serialises them).
Threads == 1..NumThreads

\* A thread outside get and put; gets and puts count the calls it has made.
NewThread == [pc |-> "idle", key |-> 0, tmp |-> 0, gets |-> 0, puts |-> 0]

\* The result the threads store.
SomeResult == CHOOSE r \in Results : TRUE

\* One ValidationCache on a directory that holds a row under hash 1.
ThreadsInit ==
    /\ ccfg \in CacheConfig
    /\ others = NoOthers
    /\ db = [k \in 1..NumKeys |-> IF k = 1 THEN NewRow(SomeResult, 0) ELSE NoRow]
    /\ put_count = 0
    /\ hits = 0
    /\ misses = 0
    /\ now = 0
    /\ last = NoCall
    /\ ncalls = 0
    /\ size = 0
    /\ thread = [t \in Threads |-> NewThread]

\* Thread t calls get for the hash k.
CallGet(t, k) ==
    /\ thread[t].pc = "idle"
    /\ ncalls < MaxCalls
    /\ ncalls' = ncalls + 1
    /\ thread' = [thread EXCEPT ![t].pc = "select", ![t].key = k, ![t].gets = @ + 1]
    /\ UNCHANGED <<db, others, put_count, now, ccfg, last, size, hits, misses>>
    /\ ThreadFrame

\* SELECT ... WHERE hash = ?; result = cursor.fetchone(); `if result`
Select(t) ==
    /\ thread[t].pc = "select"
    /\ thread' = [thread EXCEPT ![t].pc =
                    IF Found(Fetchone(db, thread[t].key)) THEN "update"
                    ELSE "load_misses"]
    /\ UNCHANGED <<storeVars, hits, misses>>
    /\ ThreadFrame

\* UPDATE ... WHERE hash = ?; conn.commit(): changes the row if it is still
\* there.
Update(t) ==
    /\ thread[t].pc = "update"
    /\ db' = IF db[thread[t].key].present
             THEN [db EXCEPT ![thread[t].key] = Touch(@, now)]
             ELSE db
    /\ thread' = [thread EXCEPT ![t].pc = "load_hits"]
    /\ UNCHANGED <<others, put_count, now, ccfg, last, ncalls, size, hits, misses>>
    /\ ThreadFrame

\* The load of `self.hits += 1`, `self.misses += 1`, `self._put_count += 1`.
LoadCounter(t) ==
    /\ thread[t].pc \in {"load_hits", "load_misses", "load_put_count"}
    /\ thread' = [thread EXCEPT
                    ![t].tmp = CASE thread[t].pc = "load_hits" -> hits
                                 [] thread[t].pc = "load_misses" -> misses
                                 [] OTHER -> put_count,
                    ![t].pc = CASE thread[t].pc = "load_hits" -> "store_hits"
                                [] thread[t].pc = "load_misses" -> "store_misses"
                                [] OTHER -> "store_put_count"]
    /\ UNCHANGED <<storeVars, hits, misses>>
    /\ ThreadFrame

\* The store of the same statements; get returns after it, put goes on to
\* `if self._put_count >= self.auto_cleanup_interval`.
StoreCounter(t) ==
    /\ thread[t].pc \in {"store_hits", "store_misses", "store_put_count"}
    /\ hits' = IF thread[t].pc = "store_hits" THEN thread[t].tmp + 1 ELSE hits
    /\ misses' = IF thread[t].pc = "store_misses" THEN thread[t].tmp + 1 ELSE misses
    /\ put_count' = IF thread[t].pc = "store_put_count" THEN thread[t].tmp + 1
                    ELSE put_count
    /\ thread' = [thread EXCEPT ![t].pc =
                    IF thread[t].pc = "store_put_count" THEN "check" ELSE "idle"]
    /\ UNCHANGED <<db, others, now, ccfg, last, ncalls, size>>
    /\ ThreadFrame

\* Thread t calls put for the hash k.
CallPut(t, k) ==
    /\ thread[t].pc = "idle"
    /\ ncalls < MaxCalls
    /\ ncalls' = ncalls + 1
    /\ thread' = [thread EXCEPT ![t].pc = "insert", ![t].key = k, ![t].puts = @ + 1]
    /\ UNCHANGED <<db, others, put_count, now, ccfg, last, size, hits, misses>>
    /\ ThreadFrame

\* INSERT OR REPLACE ...; conn.commit()
Insert(t) ==
    /\ thread[t].pc = "insert"
    /\ db' = [db EXCEPT ![thread[t].key] = Replace(@, SomeResult, now)]
    /\ thread' = [thread EXCEPT ![t].pc = "load_put_count"]
    /\ UNCHANGED <<others, put_count, now, ccfg, last, ncalls, size, hits, misses>>
    /\ ThreadFrame

\* `if self._put_count >= self.auto_cleanup_interval`
Check(t) ==
    /\ thread[t].pc = "check"
    /\ thread' = [thread EXCEPT ![t].pc =
                    IF CheckDue(put_count, ccfg) THEN "cleanup" ELSE "idle"]
    /\ UNCHANGED <<storeVars, hits, misses>>
    /\ ThreadFrame

\* self._auto_cleanup()
AutoCleanup(t) ==
    /\ thread[t].pc = "cleanup"
    /\ LET current_size == Count(db, others)
       IN IF OverLimit(current_size, ccfg)
          THEN \E E \in Evictable(db, others, EntriesToRemove(current_size)) :
                /\ db' = [j \in Keys |-> IF j \in E THEN NoRow ELSE db[j]]
                /\ others' =
                    LET left == others.n - (EntriesToRemove(current_size)
                                            - Cardinality(E))
                    IN IF left = 0 THEN NoOthers ELSE [others EXCEPT !.n = left]
          ELSE UNCHANGED <<db, others>>
    /\ thread' = [thread EXCEPT ![t].pc = "reset"]
    /\ UNCHANGED <<put_count, now, ccfg, last, ncalls, size, hits, misses>>
    /\ ThreadFrame

\* self._put_count = 0
Reset(t) ==
    /\ thread[t].pc = "reset"
    /\ put_count' = 0
    /\ thread' = [thread EXCEPT ![t].pc = "idle"]
    /\ UNCHANGED <<db, others, now, ccfg, last, ncalls, size, hits, misses>>
    /\ ThreadFrame

ThreadsNext ==
    \E t \in Threads :
        \/ \E k \in Keys : CallGet(t, k)
        \/ Select(t)
        \/ Update(t)
        \/ LoadCounter(t)
        \/ StoreCounter(t)
        \/ \E k \in Keys : CallPut(t, k)
        \/ Insert(t)
        \/ Check(t)
        \/ AutoCleanup(t)
        \/ Reset(t)

\* ----------------------------------------------------------- _compute_hash
\* A finding is a dict: a sequence of <<key, value>> pairs with distinct keys,
\* in the order of insertion.
FieldValues == {"a", "b"}
FieldNames == <<"code", "message", "path", "rule_id", "severity">>
HashedFields == {"rule_id", "severity", "message", "code"}

\* finding.get(key): None for a key the dict does not hold.
GetField(finding, key) ==
    IF \E i \in 1..Len(finding) : finding[i][1] = key
    THEN finding[CHOOSE i \in 1..Len(finding) : finding[i][1] = key][2]
    ELSE "None"

FindingKeys(finding) == {finding[i][1] : i \in 1..Len(finding)}

\* A hash over every field of the finding.
HashDataAllFields(finding) ==
    [k \in FindingKeys(finding) |-> GetField(finding, k)]

\* hash_data = {'rule_id': finding.get('rule_id'), 'severity': ..., 'message':
\* ..., 'code': ...}
HashData(finding) == [k \in HashedFields |-> GetField(finding, k)]

\* json.dumps(hash_data, sort_keys=True): the pairs in ascending key order.
DumpsSorted(d) ==
    LET ks == SelectSeq(FieldNames, LAMBDA k : k \in DOMAIN d)
    IN [i \in 1..Len(ks) |-> <<ks[i], d[ks[i]]>>]

\* hashlib.sha256(text).hexdigest(), taken as free of collisions.
Sha256(text) == <<"sha256", text>>

\* ValidationCache._compute_hash(finding) for a dict
ComputeHash(finding) == Sha256(DumpsSorted(HashData(finding)))

\* Findings with the four hashed fields, with or without a path.
Findings ==
    { <<<<"rule_id", r>>, <<"severity", v>>, <<"message", m>>, <<"code", c>>>> :
        r \in FieldValues, v \in FieldValues, m \in FieldValues, c \in FieldValues }
    \cup
    { <<<<"rule_id", r>>, <<"severity", v>>, <<"message", m>>, <<"code", c>>,
        <<"path", q>>>> :
        r \in FieldValues, v \in FieldValues, m \in FieldValues, c \in FieldValues,
        q \in FieldValues }

\* Two findings, equal at first, and no hash computed.
HashInit ==
    \E f \in Findings : fp = [f1 |-> f, f2 |-> f, h1 |-> <<>>, h2 |-> <<>>]

\* The second finding with two neighbouring fields in the other order.
SwapFields(i) ==
    /\ fp.h1 = <<>>
    /\ i \in 1..(Len(fp.f2) - 1)
    /\ fp' = [fp EXCEPT !.f2 = [@ EXCEPT ![i] = fp.f2[i + 1], ![i + 1] = fp.f2[i]]]
    /\ FpFrame

\* The second finding with another value for one field (added at the end when
\* the dict did not hold the key).
SetField(key, value) ==
    /\ fp.h1 = <<>>
    /\ fp' = [fp EXCEPT !.f2 =
                IF key \in FindingKeys(fp.f2)
                THEN [i \in 1..Len(fp.f2) |->
                        IF fp.f2[i][1] = key THEN <<key, value>> ELSE fp.f2[i]]
                ELSE Append(fp.f2, <<key, value>>)]
    /\ FpFrame

\* The second finding without one of its fields.
DropField(key) ==
    /\ fp.h1 = <<>>
    /\ key \in FindingKeys(fp.f2)
    /\ fp' = [fp EXCEPT !.f2 = SelectSeq(fp.f2, LAMBDA kv : kv[1] # key)]
    /\ FpFrame

\* _compute_hash on both findings
ComputeHashes ==
    /\ fp.h1 = <<>>
    /\ fp' = [fp EXCEPT !.h1 = ComputeHash(fp.f1), !.h2 = ComputeHash(fp.f2)]
    /\ FpFrame

HashNext ==
    \/ \E i \in 1..(Len(FieldNames) - 1) : SwapFields(i)
    \/ \E k \in FindingKeys(fp.f1) \cup {"path"}, v \in FieldValues : SetField(k, v)
    \/ \E k \in FindingKeys(fp.f2) : DropField(k)
    \/ ComputeHashes

\* ================================================== AsyncProgressTracker
\* The tracker's fields are in pt: _status, _processed, _total, _started_at
\* (0: None, else the number of the call that set it), _error_message and the
\* metric 'errors'.  The lock is held only over statements that do not await,
\* and nothing awaits between its release and `update = self.current_update`:
\* a call's mutation and its snapshot are one step.  Every callback is a step
\* of its own, since a callback may await.
Observers == 1..NumObservers
Callers == 1..NumCallers

\* What the callback of an observer does: return, raise an Exception, raise
\* asyncio.CancelledError (it awaited something that was cancelled), or return
\* after remove_callback of itself.
ObserverKinds == {"ok", "raises", "cancelled", "unregisters"}

\* ProgressUpdate.is_complete
Terminal(status) == status \in {"completed", "failed", "cancelled"}

\* ProgressUpdate.percentage as the fraction <<numerator, denominator>>
Percentage(update) ==
    IF update.total = 0 THEN <<0, 1>> ELSE <<update.processed * 100, update.total>>

\* A task outside the tracker's methods.
NoTrackerCall ==
    [ pc |-> "idle", call |-> "none", update |-> <<>>, i |-> 0,
      registered |-> {}, delivered |-> {}, outcome |-> "none" ]

TrackerInit ==
    /\ pt \in {NewTracker(total) : total \in 0..MaxTotal}
    /\ callbacks = [o \in Observers |-> o]
    /\ obs \in [Observers -> ObserverKinds]
    /\ ptask = [t \in Callers |-> NoTrackerCall]
    /\ pcalls = 0

\* Task t is outside the tracker's methods and may call one.
CanCall(t) == ptask[t].pc = "idle" /\ pcalls < MaxTrackerCalls

\* Task t has changed the fields to p under the lock and released it;
\* _notify_callbacks has taken `update = self.current_update` and starts its
\* loop over self._callbacks.
Notifying(t, call, p) ==
    [ptask EXCEPT ![t] =
        [ pc |-> "notify", call |-> call, update |-> p, i |-> 0,
          registered |-> {callbacks[j] : j \in 1..Len(callbacks)},
          delivered |-> {}, outcome |-> "none" ]]

\* AsyncProgressTracker.start()
TrackerStart(t) ==
    /\ CanCall(t)
    /\ pt' = [pt EXCEPT !.status = "running", !.started_at = pcalls + 1]
    /\ ptask' = Notifying(t, "start", pt')
    /\ pcalls' = pcalls + 1
    /\ UNCHANGED <<callbacks, obs>>
    /\ ProgFrame

\* AsyncProgressTracker.update(processed, increment); processed is <<>> for
\* None and <<n>> for the number n.
TrackerUpdate(t, processed, increment) ==
    /\ CanCall(t)
    /\ pt' = [pt EXCEPT !.processed = IF processed # <<>> THEN processed[1]
                                      ELSE @ + increment]
    /\ ptask' = Notifying(t, "update", pt')
    /\ pcalls' = pcalls + 1
    /\ UNCHANGED <<callbacks, obs>>
    /\ ProgFrame

\* AsyncProgressTracker.increment_metric('errors', amount)
IncrementMetric(t, amount) ==
    /\ CanCall(t)
    /\ pt' = [pt EXCEPT !.errors = @ + amount]
    /\ ptask' = Notifying(t, "increment_metric", pt')
    /\ pcalls' = pcalls + 1
    /\ UNCHANGED <<callbacks, obs>>
    /\ ProgFrame

\* AsyncProgressTracker.complete()
TrackerComplete(t) ==
    /\ CanCall(t)
    /\ pt' = [pt EXCEPT !.status = "completed", !.processed = pt.total]
    /\ ptask' = Notifying(t, "complete", pt')
    /\ pcalls' = pcalls + 1
    /\ UNCHANGED <<callbacks, obs>>
    /\ ProgFrame

\* AsyncProgressTracker.fail(error_message)
TrackerFail(t) ==
    /\ CanCall(t)
    /\ pt' = [pt EXCEPT !.status = "failed", !.error_message = "boom"]
    /\ ptask' = Notifying(t, "fail", pt')
    /\ pcalls' = pcalls + 1
    /\ UNCHANGED <<callbacks, obs>>
    /\ ProgFrame

\* AsyncProgressTracker.cancel()
TrackerCancel(t) ==
    /\ CanCall(t)
    /\ pt' = [pt EXCEPT !.status = "cancelled"]
    /\ ptask' = Notifying(t, "cancel", pt')
    /\ pcalls' = pcalls + 1
    /\ UNCHANGED <<callbacks, obs>>
    /\ ProgFrame

\* list.remove(callback)
Removed(list, o) == SelectSeq(list, LAMBDA x : x # o)

\* One round of `for callback in self._callbacks`: the list iterator takes
\* the element at its index in the list as it is now, and the callback runs.
NotifyCallback(t) ==
    /\ ptask[t].pc = "notify"
    /\ ptask[t].i < Len(callbacks)
    /\ LET o == callbacks[ptask[t].i + 1]
           next == [ptask[t] EXCEPT !.i = @ + 1, !.delivered = @ \cup {o}]
       IN /\ ptask' = [ptask EXCEPT ![t] =
                          IF obs[o] = "cancelled"
                          THEN [next EXCEPT !.pc = "idle", !.outcome = "raised"]
                          ELSE next]
          /\ callbacks' = IF obs[o] = "unregisters" THEN Removed(callbacks, o)
                          ELSE callbacks
    /\ UNCHANGED <<pt, obs, pcalls>>
    /\ ProgFrame

\* The iterator is past the end of the list: _notify_callbacks and the call
\* return.
ReturnFromCall(t) ==
    /\ ptask[t].pc = "notify"
    /\ ptask[t].i >= Len(callbacks)
    /\ ptask' = [ptask EXCEPT ![t].pc = "idle", ![t].outcome = "returned"]
    /\ UNCHANGED <<pt, callbacks, obs, pcalls>>
    /\ ProgFrame

\* AsyncProgressTracker.remove_callback(callback), from any task
RemoveCallback(o) ==
    /\ pcalls < MaxTrackerCalls
    /\ pcalls' = pcalls + 1
    /\ callbacks' = Removed(callbacks, o)
    /\ UNCHANGED <<pt, obs, ptask>>
    /\ ProgFrame

TrackerNext ==
    \/ \E t \in Callers :
        \/ TrackerStart(t)
        \/ \E processed \in {<<>>} \cup {<<n>> : n \in 0..(MaxTotal + 1)},
              increment \in {-1, 1} :
                /\ processed # <<>> => increment = 1
                /\ TrackerUpdate(t, processed, increment)
        \/ IncrementMetric(t, 1)
        \/ TrackerComplete(t)
        \/ TrackerFail(t)
        \/ TrackerCancel(t)
        \/ NotifyCallback(t)
        \/ ReturnFromCall(t)
    \/ \E o \in Observers : RemoveCallback(o)

\* ============================== AsyncProgressTracker with slow observers
\* Several tasks call update(increment=1) on one tracker.  A callback is
\* fast (it returns without suspending) or slow (it awaits something, like
\* ws_callback of run_scan, which awaits the broadcast and then stores
\* update.processed).  A task keeps the event loop until it suspends in a
\* slow callback or returns.
ObserverSpeeds == {"fast", "slow"}

\* Nothing received and nothing stored yet.
NoneSeen == [received |-> <<>>, stored |-> <<>>]

\* A task outside update(); cur is the observer whose callback it runs.
NoUpdateCall ==
    [ pc |-> "idle", call |-> "none", update |-> <<>>, i |-> 0, cur |-> 0,
      registered |-> {}, delivered |-> {}, outcome |-> "none" ]

ObserversInit ==
    /\ pt = NewTracker(MaxTotal)
    /\ callbacks \in {[j \in 1..n |-> j] : n \in 1..NumObservers}
    /\ obs \in [Observers -> ObserverSpeeds]
    /\ ptask = [t \in Callers |-> NoUpdateCall]
    /\ pcalls = 0
    /\ seen = [o \in Observers |-> NoneSeen]

\* The tasks that hold the event loop: inside _notify_callbacks and not
\* suspended in a callback.
OnLoop == {t \in Callers : ptask[t].pc = "notify"}

\* The observers in the list.
Registered(list) == {list[j] : j \in 1..Len(list)}

\* update(increment=1): the count is raised under the lock, then
\* _notify_callbacks takes `update = self.current_update` and starts its loop.
UpdateByOne(t) ==
    /\ CanCall(t)
    /\ OnLoop = {}
    /\ pt' = [pt EXCEPT !.processed = @ + 1]
    /\ ptask' = [ptask EXCEPT ![t] =
            [ pc |-> "notify", call |-> "update", update |-> pt', i |-> 0,
              cur |-> 0, registered |-> Registered(callbacks),
              delivered |-> {}, outcome |-> "none" ]]
    /\ pcalls' = pcalls + 1
    /\ UNCHANGED <<callbacks, obs, seen>>
    /\ ObsFrame

\* `for callback in self._callbacks: await callback(update)`: the iterator
\* takes the element at its index of the list as it is now and moves on; the
\* callback receives the snapshot; a fast one stores the count and returns, a
\* slow one suspends.
CallbackStarts(t) ==
    /\ ptask[t].pc = "notify"
    /\ OnLoop \subseteq {t}
    /\ ptask[t].i < Len(callbacks)
    /\ LET o == callbacks[ptask[t].i + 1]
           n == ptask[t].update.processed
       IN /\ seen' = [seen EXCEPT
                        ![o].received = Append(@, n),
                        ![o].stored = IF obs[o] = "fast"
                                      THEN Append(@, n) ELSE @]
          /\ ptask' = [ptask EXCEPT
                        ![t].i = @ + 1,
                        ![t].cur = o,
                        ![t].delivered = @ \cup {o},
                        ![t].pc = IF obs[o] = "slow" THEN "callback" ELSE "notify"]
    /\ UNCHANGED <<pt, callbacks, obs, pcalls>>
    /\ ObsFrame

\* What a slow callback awaited is done: it stores update.processed and
\* returns; the loop goes on.
CallbackReturns(t) ==
    /\ ptask[t].pc = "callback"
    /\ OnLoop = {}
    /\ seen' = [seen EXCEPT ![ptask[t].cur].stored =
                    Append(@, ptask[t].update.processed)]
    /\ ptask' = [ptask EXCEPT ![t].pc = "notify"]
    /\ UNCHANGED <<pt, callbacks, obs, pcalls>>
    /\ ObsFrame

\* The iterator is past the end of the list: update returns.
UpdateReturns(t) ==
    /\ ptask[t].pc = "notify"
    /\ OnLoop \subseteq {t}
    /\ ptask[t].i >= Len(callbacks)
    /\ ptask' = [ptask EXCEPT ![t].pc = "idle", ![t].outcome = "returned"]
    /\ UNCHANGED <<pt, callbacks, obs, pcalls, seen>>
    /\ ObsFrame

\* add_callback and remove_callback are called by another task while every
\* notification is suspended in a callback, or by a callback of the running
\* notification.
ListCallable == pcalls < MaxTrackerCalls /\ \A t \in OnLoop : ptask[t].i > 0

\* add_callback(callback) of an observer that is not in the list
AddCallback(o) ==
    /\ ListCallable
    /\ o \notin Registered(callbacks)
    /\ callbacks' = Append(callbacks, o)
    /\ pcalls' = pcalls + 1
    /\ UNCHANGED <<pt, obs, ptask, seen>>
    /\ ObsFrame

\* remove_callback(callback) of an observer in the list; `registered` keeps
\* the observers that were in the list from the start of the call on.
RemoveDuring(o) ==
    /\ ListCallable
    /\ o \in Registered(callbacks)
    /\ callbacks' = Removed(callbacks, o)
    /\ ptask' = [t \in Callers |-> [ptask[t] EXCEPT !.registered = @ \ {o}]]
    /\ pcalls' = pcalls + 1
    /\ UNCHANGED <<pt, obs, seen>>
    /\ ObsFrame

ObserversNext ==
    \/ \E t \in Callers :
        \/ UpdateByOne(t)
        \/ CallbackStarts(t)
        \/ CallbackReturns(t)
        \/ UpdateReturns(t)
    \/ \E o \in Observers : AddCallback(o) \/ RemoveDuring(o)

\* ===================================== ParallelProcessor.process_batch
\* The lists of items: an item is its content, equal contents are equal
\* items (item.input_data == completed.input_data).
ItemLists == UNION { [1..n -> 1..NumContents] : n \in 0..MaxItems }

\* WorkItem(item): no result and no error yet.
WorkItem(item) == [input_data |-> item, state |-> "new", result |-> "None",
                   error |-> "None"]

\* process_batch is called: work_items are built, the progress task is added.
ProcessBatchInit ==
    pb \in { [ items |-> l,
               max_workers |-> w,
               work_items |-> [i \in 1..Len(l) |-> WorkItem(l[i])],
               future_to_item |-> {},
               completed_queue |-> <<>>,
               advanced |-> 0,
               pc |-> "submit" ] : l \in ItemLists, w \in 1..MaxWorkers }

\* future_to_item = {executor.submit(process_item, item): item for ...}
SubmitItems ==
    /\ pb.pc = "submit"
    /\ pb' = [pb EXCEPT !.future_to_item = 1..Len(pb.items), !.pc = "loop",
                        !.work_items = [i \in 1..Len(pb.items) |->
                                [pb.work_items[i] EXCEPT !.state = "queued"]]]
    /\ PBFrame

\* A worker thread of the pool is free and takes the next queued call of
\* process_item.
StartItem(i) ==
    /\ i <= Len(pb.items)
    /\ pb.work_items[i].state = "queued"
    /\ \A j \in 1..(i - 1) : pb.work_items[j].state # "queued"
    /\ Cardinality({j \in 1..Len(pb.items) : pb.work_items[j].state = "running"})
            < pb.max_workers
    /\ pb' = [pb EXCEPT !.work_items[i].state = "running"]
    /\ PBFrame

\* process_item: process_func returns or raises; the work item goes into
\* completed_queue.
FinishItem(i, raised) ==
    /\ i <= Len(pb.items)
    /\ pb.work_items[i].state = "running"
    /\ pb' = [pb EXCEPT
                !.work_items[i] = [@ EXCEPT !.state = "done",
                                           !.result = IF raised THEN "None" ELSE "result",
                                           !.error = IF raised THEN "Exception" ELSE "None"],
                !.completed_queue = Append(@, i)]
    /\ PBFrame

\* The futures the loop deletes for the completed work item: those whose
\* item has equal input_data.
CompletedFutures(futures, items, completed) ==
    {f \in futures : items[f] = items[completed]}

\* One round of `while future_to_item`: completed_queue.get() returns,
\* progress.advance(task), the futures of the completed item are deleted.
TrackProgress ==
    /\ pb.pc = "loop"
    /\ pb.future_to_item # {}
    /\ pb.completed_queue # <<>>
    /\ LET completed == Head(pb.completed_queue)
       IN pb' = [pb EXCEPT
                    !.completed_queue = Tail(@),
                    !.advanced = @ + 1,
                    !.future_to_item =
                        @ \ CompletedFutures(@, pb.items, completed)]
    /\ PBFrame

\* future_to_item is empty: the loop ends, and the `with` block of the
\* executor waits for the worker threads.
LeaveLoop ==
    /\ pb.pc = "loop"
    /\ pb.future_to_item = {}
    /\ pb' = [pb EXCEPT !.pc = "shutdown"]
    /\ PBFrame

\* Every call of process_item has ended: `return work_items`.
ReturnWorkItems ==
    /\ pb.pc = "shutdown"
    /\ \A i \in 1..Len(pb.items) : pb.work_items[i].state = "done"
    /\ pb' = [pb EXCEPT !.pc = "returned"]
    /\ PBFrame

ParallelNext ==
    \/ SubmitItems
    \/ \E i \in 1..MaxItems : StartItem(i)
    \/ \E i \in 1..MaxItems, raised \in BOOLEAN : FinishItem(i, raised)
    \/ TrackProgress
    \/ LeaveLoop
    \/ ReturnWorkItems

\* ================== ResilientLLMWrapper._check_rate_limits under threads
\* One wrapper shared by the worker threads of validate_findings.  `issued`
\* counts the calls of self.llm.invoke since the minute counters were last
\* reset; `elapsed` says that 60 s have passed since minute_start.  The
\* token limit (rate_limit_tokens_per_minute) is left unset.
NewWorker == [pc |-> "idle", requests |-> 0, loaded |-> 0]

WrapperInit ==
    lw \in { [ rate_limit_requests_per_minute |-> r,
               requests_this_minute |-> 0,
               elapsed |-> FALSE,
               issued |-> 0,
               worker |-> [t \in Threads |-> NewWorker] ] : r \in 1..MaxRateLimit }

\* The minute counters are reset and minute_start is set to now.
ResetCounters(w) ==
    [w EXCEPT !.requests_this_minute = 0, !.elapsed = FALSE, !.issued = 0]

\* `if self.requests_this_minute >= self.config.rate_limit_requests_per_minute`
LimitReached(w) == w.requests_this_minute >= w.rate_limit_requests_per_minute

\* invoke calls _check_rate_limits: the counters are reset when the minute
\* is over; when the limit is reached the thread sleeps for the rest of the
\* minute, else the request is made next.
CheckRateLimits(t) ==
    /\ lw.worker[t].pc = "idle"
    /\ lw.worker[t].requests < MaxRequests
    /\ LET w == IF lw.elapsed THEN ResetCounters(lw) ELSE lw
       IN lw' = [w EXCEPT !.worker[t].pc =
                    IF LimitReached(w) THEN "sleep" ELSE "request"]
    /\ LWFrame

\* time.sleep(sleep_time) ends at the end of the minute; the thread resets
\* the counters and makes its request next.
SleepEnds(t) ==
    /\ lw.worker[t].pc = "wake"
    /\ lw' = [ResetCounters(lw) EXCEPT !.worker[t].pc = "request"]
    /\ LWFrame

\* result = self.llm.invoke(...) is called: a request is issued.
LlmInvoke(t) ==
    /\ lw.worker[t].pc = "request"
    /\ lw' = [lw EXCEPT !.issued = @ + 1,
                        !.worker[t].pc = "invoke",
                        !.worker[t].requests = @ + 1]
    /\ LWFrame

\* The request raises: nothing is counted; invoke sleeps its backoff delay
\* and tries again through _check_rate_limits, or raises.
LlmRaises(t) ==
    /\ lw.worker[t].pc = "invoke"
    /\ lw' = [lw EXCEPT !.worker[t].pc = "idle"]
    /\ LWFrame

\* The request returns; `self.requests_this_minute += 1` reads the counter.
LlmReturns(t) ==
    /\ lw.worker[t].pc = "invoke"
    /\ lw' = [lw EXCEPT !.worker[t].pc = "count",
                        !.worker[t].loaded = lw.requests_this_minute]
    /\ LWFrame

\* `self.requests_this_minute += 1` writes the counter; invoke returns.
CountRequest(t) ==
    /\ lw.worker[t].pc = "count"
    /\ lw' = [lw EXCEPT !.requests_this_minute = lw.worker[t].loaded + 1,
                        !.worker[t].pc = "idle"]
    /\ LWFrame

\* 60 s have passed since minute_start: the sleeps that began in this
\* minute are over.
MinutePasses ==
    /\ ~lw.elapsed
    /\ lw' = [lw EXCEPT !.elapsed = TRUE,
                        !.worker = [t \in Threads |->
                            IF @[t].pc = "sleep"
                            THEN [@[t] EXCEPT !.pc = "wake"] ELSE @[t]]]
    /\ LWFrame

WrapperNext ==
    \/ \E t \in Threads :
        \/ CheckRateLimits(t)
        \/ SleepEnds(t)
        \/ LlmInvoke(t)
        \/ LlmRaises(t)
        \/ LlmReturns(t)
        \/ CountRequest(t)
    \/ MinutePasses

\* ============================ api/routes/websocket.py: ConnectionManager
\* The connections of one scan_id.  `active` is active_connections[scan_id]
\* and `present` says that the key is in the dict.  `closed` are the
\* websockets whose send_json raises.  A broadcast in progress holds
\* `connections`, which is the list object of the dict while `live` holds
\* and an empty list of its own otherwise, and the position `index` of its
\* list iterator.  `whole` are the connections that were registered when
\* the broadcast began and have not been disconnected since; `removed` are
\* those the broadcast itself has removed.
Connections == 1..NumConnections

\* `websocket in list`
ElemOf(x, list) == \E i \in 1..Len(list) : list[i] = x

ManagerInit ==
    cm \in { [ active |-> <<>>, present |-> FALSE, closed |-> F,
               connected |-> 0,
               bpc |-> "idle", live |-> FALSE, index |-> 0, current |-> 0,
               disconnected |-> <<>>, delivered |-> {},
               whole |-> {}, removed |-> {}, broadcasts |-> 0 ]
             : F \in SUBSET Connections }

\* The tasks on the event loop run one at a time: another task runs only
\* while the broadcast is suspended in send_json, or is not running.
BroadcastSuspended == cm.bpc \in {"idle", "send", "done"}

\* connect: the websocket is appended under the lock, to a new list when
\* the key is absent.  Websocket c is the c-th one to connect.
Connect(c) ==
    /\ BroadcastSuspended
    /\ c = cm.connected + 1
    /\ cm' = [cm EXCEPT !.active = Append(@, c),
                        !.present = TRUE,
                        !.connected = c]
    /\ CMFrame

\* disconnect: the websocket is removed from the list under the lock, and
\* the key is deleted when the list is left empty.
Disconnect(c) ==
    /\ BroadcastSuspended
    /\ ElemOf(c, cm.active)
    /\ LET list == Removed(cm.active, c)
       IN cm' = [cm EXCEPT !.active = list,
                           !.present = list # <<>>,
                           !.live = @ /\ list # <<>>,
                           !.whole = @ \ {c}]
    /\ CMFrame

\* The list that `for connection in connections` iterates.
ConnectionsSeen(m) == IF m.live THEN m.active ELSE <<>>

\* `if disconnected:` under the lock, every connection whose send raised is
\* removed from the list if it is still there; the call returns.
CleanUp(m) ==
    [m EXCEPT !.active = SelectSeq(@, LAMBDA x : ~ElemOf(x, m.disconnected)),
              !.removed = {x \in Connections :
                              ElemOf(x, m.active) /\ ElemOf(x, m.disconnected)},
              !.bpc = "done",
              !.live = FALSE]

\* The for loop takes the next connection of the list, the one at the
\* iterator's position in the list as it is now, and awaits its send_json;
\* past the end of the list the loop is over.
NextConnection(m) ==
    LET list == ConnectionsSeen(m)
    IN IF m.index < Len(list)
       THEN [m EXCEPT !.current = list[m.index + 1],
                      !.index = @ + 1,
                      !.bpc = "send"]
       ELSE CleanUp(m)

\* broadcast_to_scan begins: under the lock it takes
\* active_connections.get(scan_id, []), the list object itself.
BroadcastToScan ==
    /\ cm.bpc \in {"idle", "done"}
    /\ cm.broadcasts < MaxBroadcasts
    /\ cm' = NextConnection([cm EXCEPT !.live = cm.present,
                                       !.index = 0,
                                       !.current = 0,
                                       !.disconnected = <<>>,
                                       !.delivered = {},
                                       !.whole = {x \in Connections :
                                                     ElemOf(x, cm.active)},
                                       !.removed = {},
                                       !.broadcasts = @ + 1])
    /\ CMFrame

\* await connection.send_json(message) returns: the message is delivered.
SendJsonReturns ==
    /\ cm.bpc = "send"
    /\ cm.current \notin cm.closed
    /\ cm' = NextConnection([cm EXCEPT !.delivered = @ \cup {cm.current}])
    /\ CMFrame

\* await connection.send_json(message) raises: `except Exception` notes the
\* connection for the clean-up.
SendJsonRaises ==
    /\ cm.bpc = "send"
    /\ cm.current \in cm.closed
    /\ cm' = NextConnection([cm EXCEPT !.disconnected = Append(@, cm.current)])
    /\ CMFrame

ManagerNext ==
    \/ \E c \in Connections :
        \/ Connect(c)
        \/ Disconnect(c)
    \/ BroadcastToScan
    \/ SendJsonReturns
    \/ SendJsonRaises

\* ===================================================== claims: rate limiter
InFlight == {t \in Tasks : task[t].pc = "body"}
SlotHolders == {t \in Tasks : task[t].pc \in {"tok_wait", "body"}}

\* C1: at no moment are more than max_concurrent operations inside the section
\* guarded by the limiter (nor more than max_concurrent tasks past the
\* semaphore), whether or not rate-limit tokens are available.
C1_ConcurrencyBound ==
    /\ Cardinality(InFlight) <= config.max_concurrent
    /\ Cardinality(SlotHolders) <= config.max_concurrent

\* C1 witness: max_concurrent operations are in flight and another task waits
\* for a slot although a rate-limit token is available.
C1_Witness ==
    /\ Cardinality(InFlight) = config.max_concurrent
    /\ \E t \in Tasks : task[t].pc = "sem_wait"
    /\ HasCapacity(level, config)

\* C2 (as claimed): whenever no task is inside the limiter or waiting for it,
\* every slot is free again.
C2_SlotsFreeWhenIdle ==
    (\A t \in Tasks : task[t].pc \in {"idle", "done"})
        => semaphore = config.max_concurrent

\* C3 (as claimed): at most requests_per_minute acquisitions succeed within
\* any trailing 60 s.
C3_WindowBound ==
    SumSeq(recent) <= config.requests_per_minute

\* The operation of task t failed with a retryable error every time it ran, and
\* the task was not cancelled.
AlwaysFailedRetryable(t) ==
    /\ task[t].opErr \in config.retry_exceptions
    /\ task[t].outcome = "raised"
    /\ task[t].exc # "CancelledError"

\* C4 (as claimed): when the operation always fails with a retryable error,
\* execute_with_retry runs it max_retries times and raises MaxRetriesExceeded
\* whose cause is the operation's last error.
C4_RetryExhaustion ==
    \A t \in Tasks :
        (task[t].pc = "done" /\ task[t].mode = "retry" /\ AlwaysFailedRetryable(t))
            => /\ task[t].opRuns = config.max_retries
               /\ task[t].exc = "MaxRetriesExceeded"
               /\ task[t].cause = task[t].opErr

\* C6: an error outside retry_exceptions that leaves the guarded section of
\* execute_with_retry is the last thing the call does: the call has ended with
\* that same error, unwrapped, no sleep and no attempt follows it, and the
\* task's slot is released.
C6_NonRetryablePropagates ==
    \A t \in Tasks :
        task[t].mode = "retry" =>
            \A k \in 1..Len(task[t].errs) :
                task[t].errs[k] \notin config.retry_exceptions =>
                    /\ k = Len(task[t].errs)
                    /\ task[t].pc = "done"
                    /\ task[t].outcome = "raised"
                    /\ task[t].exc = task[t].errs[k]
                    /\ task[t].cause = "None"
                    /\ task[t].sleeps = k - 1
                    /\ task[t].attempt = k - 1
                    /\ ~holds[t]

\* C6 witness: the operation raised ValueError while only ConnectionError is
\* retryable, and execute_with_retry has ended.
C6_Witness ==
    \E t \in Tasks :
        /\ task[t].mode = "retry"
        /\ task[t].errs = <<"ValueError">>
        /\ "ValueError" \notin config.retry_exceptions
        /\ task[t].pc = "done"

\* C34: a task that sleeps between two attempts of execute_with_retry holds
\* no slot, and the free slots are max_concurrent minus the slots taken by
\* the other tasks; when the sleep ends the task waits for a slot again (or
\* was cancelled), and it reaches the operation only through a new slot and
\* a new token.
C34_NoSlotWhileSleeping ==
    [][ \A t \in Tasks :
          /\ task'[t].pc = "sleep" =>
                /\ ~holds'[t]
                /\ semaphore' = config.max_concurrent
                                  - Cardinality({u \in Tasks \ {t} : holds'[u]})
          /\ (task[t].pc = "sleep" /\ task'[t].pc # "sleep") =>
                /\ task'[t].pc \in {"sem_wait", "done"}
                /\ ~holds'[t]
          /\ (task[t].pc # "body" /\ task'[t].pc = "body") =>
                /\ task[t].pc = "tok_wait" /\ holds[t]
                /\ level' = level + 1 ]_vars

\* C34 witness: one task sleeps after a failed attempt while another one
\* runs its operation in the only slot.
C34_Witness ==
    \E t, u \in Tasks :
        /\ config.max_concurrent = 1
        /\ task[t].pc = "sleep"
        /\ task[u].pc = "body" /\ holds[u]

\* C33: the k-th sleep of execute_with_retry follows failed attempt k - 1
\* and lasts d = min(base_delay * 2^(k-1), max_delay), plus at most 10% of d
\* with jitter: it is at least d and at most 1.1 * max_delay; a call that
\* exhausted its attempts slept max_retries - 1 times, and no sleep follows
\* the last attempt.
C33_BackoffDelays ==
    \A t \in Tasks :
        /\ Len(task[t].delays) = task[t].sleeps
        /\ \A k \in 1..Len(task[t].delays) :
              LET d == Min(config.base_delay * (2 ^ (k - 1)), config.max_delay)
                  slept == task[t].delays[k]
              IN  /\ slept >= d
                  /\ 10 * slept <= 11 * d
                  /\ 10 * slept <= 11 * config.max_delay
                  /\ ~config.jitter => slept = d
        /\ task[t].pc = "sleep" =>
              /\ task[t].attempt < config.max_retries - 1
              /\ task[t].sleeps = task[t].attempt + 1
        /\ task[t].exc = "MaxRetriesExceeded" =>
              /\ task[t].sleeps = config.max_retries - 1
              /\ task[t].pc = "done"

\* C33 witness: three attempts failed; the first sleep took base_delay plus
\* jitter, the second was capped at max_delay.
C33_Witness ==
    \E t \in Tasks :
        /\ task[t].exc = "MaxRetriesExceeded"
        /\ config.max_retries = 3
        /\ config.jitter
        /\ config.base_delay = 2 * DefaultBaseDelay
        /\ config.max_delay = 3 * DefaultBaseDelay
        /\ task[t].delays = <<2 * DefaultBaseDelay + 1, 3 * DefaultBaseDelay>>

\* ===================================================== claims: validation
NonDecreasing(seq) == \A k \in 1..(Len(seq) - 1) : seq[k] <= seq[k + 1]

\* Strictly increasing as long as the cap max_retry_delay is not reached.
IncreasingBelowCap(seq, cap) ==
    \A k \in 1..(Len(seq) - 1) : seq[k + 1] < cap => seq[k] < seq[k + 1]

\* Every classifier call made for finding i raised.
ClassifierAlwaysFailed(i) == calls[i] >= 1 /\ failures[i] = calls[i]

\* C5: a run on one finding whose classifier fails at every call makes exactly
\* max_retries + 1 calls (3 for max_retries = 2), sleeps max_retries delays that
\* never decrease (and increase strictly under exponential backoff below the
\* cap), and returns that one finding with the error verdict.
C5_ScenarioB ==
    (mainpc = "returned" /\ Len(findings) = 1 /\ ClassifierAlwaysFailed(1)) =>
        /\ calls[1] = vcfg.max_retries + 1
        /\ Len(delays[1]) = vcfg.max_retries
        /\ NonDecreasing(delays[1])
        /\ vcfg.backoff.retry_exponential_backoff =>
                IncreasingBelowCap(delays[1], vcfg.backoff.max_retry_delay)
        /\ validated = <<1>>
        /\ ai[1].verdict = "Error"

\* C5 witness: max_retries = 2 under the default backoff: three calls, all
\* failed, delays 1 s then 2 s, and the error verdict returned.
C5_Witness ==
    /\ mainpc = "returned"
    /\ Len(findings) = 1
    /\ vcfg.max_retries = 2
    /\ vcfg.backoff = DefaultBackoff
    /\ calls[1] = 3
    /\ failures[1] = 3
    /\ delays[1] = <<1, 2>>
    /\ validated = <<1>>
    /\ ai[1] = ErrorValidation("LLMError")

\* C7 (as claimed): a run on N >= 0 findings returns N results that are the N
\* inputs, one each.
C7_BatchCompleteness ==
    mainpc \notin {"start", "submitted", "collect"} =>
        /\ mainpc = "returned"
        /\ Len(validated) = Len(findings)
        /\ \A i \in 1..Len(findings) : \E k \in 1..Len(validated) : validated[k] = i

\* C8 (as claimed): the i-th returned finding is the i-th input finding.
C8_OrderPreserved ==
    mainpc = "returned" => \A k \in 1..Len(validated) : validated[k] = k

\* C9 (as claimed): the same finding twice, both classified without error:
\* the classifier is called once, and the run ends with one cache hit.
C9_ScenarioC ==
    ( /\ mainpc = "returned"
      /\ Len(findings) = 2
      /\ findings[1] = findings[2]
      /\ \A i \in 1..2 : failures[i] = 0 /\ ai[i].verdict = "True Positive" ) =>
        /\ calls[1] + calls[2] = 1
        /\ hits = 1

\* C10 (as claimed): a finding whose processing failed is returned with a
\* classification that has the error verdict and carries the error message.
C10_FailureGivesErrorVerdict ==
    \A k \in 1..Len(validated) :
        future[validated[k]] = "raised" =>
            /\ ai[validated[k]].verdict = "Error"
            /\ ai[validated[k]].justification # <<>>

\* Classifier invocations in flight: batches inside self.llm.invoke.
InClassifier == {b \in Batches : batch[b].state = "running" /\ batch[b].pc = "in_llm"}
QueuedBatches == {b \in Batches : batch[b].state = "queued"}

\* C11: at every moment of a validation run at most max_workers classifier
\* invocations are in flight, however many batches are still queued.
C11_ClassifierConcurrency ==
    Cardinality(InClassifier) <= vcfg.max_workers

\* C11 witness: max_workers invocations are in flight while a batch is queued.
C11_Witness ==
    /\ Cardinality(InClassifier) = vcfg.max_workers
    /\ QueuedBatches # {}

\* C12 (as claimed): a run during which the shutdown flag was set returns
\* every input finding.
C12_ShutdownKeepsFindings ==
    (mainpc = "returned" /\ shutdown_flag) =>
        \A i \in Inputs : \E k \in 1..Len(validated) : validated[k] = i

C14_RoundTrip ==
    [][ \A k \in Keys :
            (last.op = "put" /\ last.key = k /\ last.exc = "None" /\ Get(k))
                => last'.ret = last.arg ]_vars

\* C15: a get under a hash that has no row returns None, adds one to the miss
\* counter, leaves the hit counter alone and changes no row.
C15_CacheMiss ==
    [][ \A k \in Keys :
            (Get(k) /\ ~db[k].present) =>
                /\ last'.ret = <<>>
                /\ misses' = misses + 1
                /\ hits' = hits
                /\ db' = db
                /\ others' = others ]_vars

\* C15 witness: the third call of a run is a get that missed.
C15_Witness ==
    /\ last.op = "get"
    /\ last.ret = <<>>
    /\ misses = 1
    /\ ncalls = 3
    /\ ~db[last.key].present

\* C16: a get that hits returns the stored result, adds one to the row's
\* access_count, sets its accessed_at to now, adds one to the hit counter, and
\* changes nothing else; and only a get that hits or a put changes the
\* access_count of a row.
C16_CacheHit ==
    [][ \A k \in Keys :
            /\ (Get(k) /\ db[k].present) =>
                    /\ Len(last'.ret) = 1
                    /\ Dumps(last'.ret[1]) = db[k].validation_result
                    /\ db' = [db EXCEPT ![k].access_count = @ + 1,
                                        ![k].accessed_at = now]
                    /\ others' = others
                    /\ hits' = hits + 1
                    /\ misses' = misses
            /\ ( /\ db[k].present
                 /\ db'[k].present
                 /\ db'[k].access_count # db[k].access_count ) =>
                    \/ Get(k)
                    \/ \E r \in Results : Put(k, r) \/ PutCleanupFails(k, r) ]_vars

\* C16 witness: a row was put and then hit twice.
C16_Witness ==
    /\ last.op = "get"
    /\ last.ret # <<>>
    /\ hits = 2
    /\ db[last.key].access_count = 3

\* C17 (as claimed): after put(k, r) the row of k holds r with both timestamps
\* now, and access_count 1 for a new hash or the previous access_count plus one
\* for a replaced row.
C17_PutInsertsOrReplaces ==
    [][ \A k \in Keys, r \in Results :
            Put(k, r) =>
                /\ db'[k].present
                /\ db'[k].validation_result = Dumps(r)
                /\ db'[k].created_at = now
                /\ db'[k].accessed_at = now
                /\ db'[k].access_count =
                        IF db[k].present THEN db[k].access_count + 1 ELSE 1 ]_vars

\* A row is older than max_age_days.
OlderThan(row, days) == now - row.created_at > days * TicksPerDay

\* C18 (as claimed): cleanup(max_age_days, min_access_count) deletes exactly
\* the rows older than max_age_days whose access_count is at most
\* min_access_count, and returns how many it deleted.
C18_Cleanup ==
    [][ \A d \in 0..1, c \in 1..2, z \in UtcOffsets :
            Cleanup(d, c, z) =>
                /\ \A k \in Keys :
                        db'[k] = IF /\ db[k].present
                                    /\ OlderThan(db[k], d)
                                    /\ db[k].access_count <= c
                                 THEN NoRow ELSE db[k]
                /\ last'.ret = <<last'.removed>> ]_vars

\* C19: a put runs the eviction check exactly when it is the
\* auto_cleanup_interval-th put since the last check (or since the instance
\* was made); the check deletes rows only when there are more than
\* max_entries, and then 20% of them, rounded down; with the default settings
\* and 12,000 rows stored, the 100th put leaves at most 9,680 rows.
C19_EvictionTrigger ==
    last.op = "put" =>
        /\ last.checked <=> last.nth = ccfg.auto_cleanup_interval
        /\ last.nth <= ccfg.auto_cleanup_interval
        /\ last.removed > 0 => last.checked /\ last.current_size > ccfg.max_entries
        /\ (last.checked /\ last.current_size > ccfg.max_entries) =>
                /\ 5 * last.removed <= last.current_size
                /\ last.current_size < 5 * (last.removed + 1)
        /\ size = last.current_size - last.removed
        /\ (ccfg = DefaultCacheConfig /\ last.checked /\ ncalls = last.nth) =>
                5 * size <= 4 * (Overfull(ccfg) + ccfg.auto_cleanup_interval)

\* C19 witness: with the default settings and 12,000 rows stored, the 100th
\* put, each under a new hash, ran the check, which deleted 2,420 rows.
C19_Witness ==
    /\ ccfg = DefaultCacheConfig
    /\ last.op = "put"
    /\ last.checked
    /\ ncalls = DefaultAutoCleanupInterval
    /\ last.current_size = Overfull(ccfg) + DefaultAutoCleanupInterval
    /\ last.removed = EntriesToRemove(last.current_size)
    /\ 5 * size = 4 * last.current_size

\* C20 (as claimed): after an eviction check there are at most
\* max_entries * 1.2 rows.
C20_BoundedStorage ==
    (last.op = "put" /\ last.checked) => 5 * size <= 6 * ccfg.max_entries

\* C21: in every auto-cleanup pass each evicted entry e and each surviving
\* entry s satisfy (last-accessed(e), access-count(e)) <=
\* (last-accessed(s), access-count(s)) lexicographically; so the entry just
\* inserted is not evicted while an entry accessed before it survives.
C21_EvictionOrder ==
    [][\A k \in Keys, r \in Results :
        Put(k, r) =>
            LET written == [db EXCEPT ![k] = NewRow(r, now)]
                evicted == {j \in Present(written) : ~db'[j].present}
                survivors == Present(db')
                Leq(e, s) ==
                    \/ e.accessed_at < s.accessed_at
                    \/ /\ e.accessed_at = s.accessed_at
                       /\ e.access_count <= s.access_count
            IN /\ \A e \in evicted, s \in survivors : Leq(written[e], db'[s])
               /\ others'.n < others.n =>
                    \A s \in survivors : Leq(OthersRow, db'[s])
               /\ others'.n > 0 =>
                    \A e \in evicted : Leq(written[e], OthersRow)
               /\ k \in evicted =>
                    /\ \A s \in survivors : db'[s].accessed_at >= now
                    /\ others'.n > 0 => others.at >= now]_vars

\* C21 witness: a put ran an auto-cleanup pass that removed rows accessed
\* earlier and kept the row just inserted.
C21_Witness ==
    /\ last.op = "put"
    /\ last.removed > 0
    /\ db[last.key].present
    /\ others.n > 0
    /\ others.at < db[last.key].accessed_at

\* C22: after clear() the store holds no entries; a key has an entry again
\* only once it is stored again, and until then get of it returns None.
C22_Clear ==
    [][/\ Clear => (Present(db') = {} /\ others'.n = 0)
       /\ \A k \in Keys :
            /\ (~db[k].present /\ db'[k].present)
                    => (last'.op = "put" /\ last'.key = k /\ ncalls' = ncalls + 1)
            /\ (~db[k].present /\ Get(k)) => last'.ret = <<>>]_vars

\* C22 witness: clear() has just emptied a store that held entries.
C22_Witness ==
    /\ last.op = "clear"
    /\ last.removed >= 2
    /\ Present(db) = {}
    /\ others.n = 0

\* C24 (as claimed): no error leaves get or put when the backing store fails:
\* a failing read is reported as a miss, a failing write is skipped.
C24_StoreFailureContained ==
    last.op \in {"get", "put"} => last.exc = "None"

\* C23 (as claimed): once all concurrent calls have returned, hits + misses
\* is the number of get calls made, the hits show in the access_count of the
\* row they read, and the put counter has counted every put (it is the number
\* of puts modulo auto_cleanup_interval, as after the same calls one by one).
C23_ThreadSafe ==
    (\A t \in Threads : thread[t].pc = "idle") =>
        LET gets == SumSeq([t \in Threads |-> thread[t].gets])
            puts == SumSeq([t \in Threads |-> thread[t].puts])
        IN /\ hits + misses = gets
           /\ puts = 0 => db[1].access_count = 1 + hits
           /\ put_count = puts % ccfg.auto_cleanup_interval

\* C25: two findings that agree on rule_id, severity, message and code get
\* the same fingerprint, whatever the order of their fields and whatever their
\* other fields.
C25_FingerprintDeterminism ==
    (fp.h1 # <<>> /\ \A k \in HashedFields : GetField(fp.f1, k) = GetField(fp.f2, k))
        => fp.h1 = fp.h2

\* C25 witness: two findings with the same four fields, in another order and
\* with another path, were hashed.
C25_Witness ==
    /\ fp.h1 # <<>>
    /\ fp.h1 = fp.h2
    /\ FindingKeys(fp.f1) = FindingKeys(fp.f2)
    /\ \E i \in 1..Len(fp.f1) : fp.f1[i][1] # fp.f2[i][1]
    /\ GetField(fp.f1, "path") # GetField(fp.f2, "path")

\* ===================================================== claims: tracker
\* C26 (as claimed): once the status is completed, failed or cancelled, no
\* call changes the status or the processed count.
C26_TerminalIsFinal ==
    [][Terminal(pt.status) =>
        (pt'.status = pt.status /\ pt'.processed = pt.processed)]_vars

\* C27 (as claimed): the status changes only from pending to running and from
\* running to completed, failed or cancelled, and a start time once recorded
\* is not reset.
C27_StatusEdges ==
    [][/\ pt'.status # pt.status =>
            \/ pt.status = "pending" /\ pt'.status = "running"
            \/ pt.status = "running" /\ Terminal(pt'.status)
       /\ pt.started_at # 0 => pt'.started_at = pt.started_at]_vars

\* C28 (as claimed): the processed count never decreases, stays within
\* 0..total, and the percentage stays within [0, 100].
C28_ProgressMonotonic ==
    [][/\ pt'.processed >= pt.processed
       /\ 0 <= pt'.processed
       /\ pt'.processed <= pt'.total
       /\ 0 <= Percentage(pt')[1]
       /\ Percentage(pt')[1] <= 100 * Percentage(pt')[2]]_vars

\* C29 (as claimed): a call during which an observer raised has returned
\* normally, and has notified every other observer that was registered when
\* it was made and still is.
C29_ObserverFailureIsolated ==
    \A t \in Callers :
        ( /\ ptask[t].pc = "idle"
          /\ ptask[t].call # "none"
          /\ \E o \in ptask[t].delivered : obs[o] \in {"raises", "cancelled"} ) =>
            /\ ptask[t].outcome = "returned"
            /\ \A o \in ptask[t].registered :
                    (\E j \in 1..Len(callbacks) : callbacks[j] = o)
                        => o \in ptask[t].delivered

\* C30 (as claimed): a mutating call that has returned has delivered its
\* snapshot to every observer that was registered when it was made (and has
\* not been removed by another caller since).
C30_SnapshotToEveryObserver ==
    \A t \in Callers :
        (ptask[t].pc = "idle" /\ ptask[t].outcome = "returned") =>
            \A o \in ptask[t].registered :
                (\E j \in 1..Len(callbacks) : callbacks[j] = o)
                    => o \in ptask[t].delivered

\* ===================================================== claims: observers

\* C35 (as claimed): with tasks that call update(increment=1) concurrently,
\* the processed counts an observer receives never decrease in the order it
\* receives them, and neither do the counts it stores.
C35_ObserverSeesMonotonic ==
    \A o \in Observers :
        /\ NonDecreasing(seen[o].received)
        /\ NonDecreasing(seen[o].stored)

\* C36 (as claimed): an update that has returned has delivered its snapshot
\* to every observer that was in the list from the start of the call to its
\* end, whatever was added or removed meanwhile.
C36_StayingObserverNotified ==
    \A t \in Callers :
        (ptask[t].pc = "idle" /\ ptask[t].outcome = "returned") =>
            ptask[t].registered \subseteq ptask[t].delivered

\* ===================================================== claims: process_batch

\* C37 (as claimed): when process_batch has returned, the progress task was
\* advanced once per input item, and there is one work item per input, in
\* input order, each with a result or an error; equal items included.
C37_AdvancedOncePerItem ==
    pb.pc = "returned" =>
        /\ pb.advanced = Len(pb.items)
        /\ Len(pb.work_items) = Len(pb.items)
        /\ \A i \in 1..Len(pb.items) :
              /\ pb.work_items[i].input_data = pb.items[i]
              /\ pb.work_items[i].result # "None" \/ pb.work_items[i].error # "None"

\* ===================================================== claims: LLM rate limit

\* C38 (as claimed): between two resets of the minute counters at most
\* rate_limit_requests_per_minute requests are issued, successful or failed.
C38_RequestsPerWindow ==
    lw.issued <= lw.rate_limit_requests_per_minute

\* ===================================================== claims: websocket

\* C40 (as claimed): when broadcast_to_scan has returned, every connection
\* that was registered from its beginning to its end and whose send works
\* has received the message, every connection whose send raised is out of
\* the active list, and the broadcast has removed no connection whose send
\* works.
C40_BroadcastReachesAll ==
    cm # <<>> /\ cm.bpc = "done" =>
        /\ (cm.whole \ cm.closed) \subseteq cm.delivered
        /\ \A c \in Connections :
              ElemOf(c, cm.disconnected) => ~ElemOf(c, cm.active)
        /\ cm.removed \subseteq cm.closed

\* ===================================================== claims: findings

\* C32 (as claimed): after a validation run every input finding has the
\* fields and values it had before the run; at the start no input finding
\* has an 'ai_validation' entry.  (validated holds the input dicts
\* themselves, by index: _validate_single_finding returns the dict it was
\* given.)
C32_InputsReadOnly ==
    mainpc = "returned" =>
        \A i \in 1..Len(findings) : ai[i] = NoValidation

\* ===================================================== claims: scan API

ScanStatusEdge(from, to) ==
    \/ from = "pending" /\ to = "running"
    \/ from = "running" /\ to \in {"completed", "failed", "cancelled"}

\* C39 (as claimed): once the status is cancelled no step changes it, the
\* status moves only along pending -> running -> {completed, failed,
\* cancelled}, and run_scan on a scan that is not pending changes nothing
\* of the row.
C39_CancelledIsFinal ==
    [][ /\ scan.status = "cancelled" => scan'.status = "cancelled"
        /\ scan'.status # scan.status => ScanStatusEdge(scan.status, scan'.status)
        /\ RunScanNotPending =>
              [scan' EXCEPT !.pc = "done"] = [scan EXCEPT !.pc = "done"] ]_vars

\* ===================================================== specifications

\* The groups a specification does not move.
CacheIdle == hits = 0 /\ misses = 0
VBPIdle == future = <<>> /\ shutdown_flag = FALSE
BatchesIdle == batch = <<>> /\ calls = <<>> /\ failures = <<>> /\ delays = <<>>
ScanIdle == scan = <<>> /\ tracker = <<>>
StoreIdle ==
    /\ db = <<>>
    /\ others = <<>>
    /\ put_count = 0
    /\ now = 0
    /\ ccfg = <<>>
    /\ last = <<>>
    /\ ncalls = 0
    /\ size = 0

ThreadsIdle == thread = <<>>
FpIdle == fp = <<>>
SeenIdle == seen = <<>>
PBIdle == pb = <<>>
LWIdle == lw = <<>>
CMIdle == cm = <<>>
ExtIdle == SeenIdle /\ PBIdle /\ LWIdle /\ CMIdle
ProgIdle ==
    /\ pt = <<>>
    /\ callbacks = <<>>
    /\ obs = <<>>
    /\ ptask = <<>>
    /\ pcalls = 0

ValIdle ==
    /\ findings = <<>>
    /\ vcfg = CHOOSE c \in ValidatorConfig({DefaultBackoff}) : TRUE
    /\ ai = <<>>
    /\ BatchesIdle
    /\ yieldq = <<>>
    /\ validated = <<>>
    /\ mainpc = "start"
    /\ CacheIdle
    /\ VBPIdle

RLIdle ==
    /\ config = CHOOSE c \in RateLimitConfig : TRUE
    /\ semaphore = 0
    /\ level = 0
    /\ request_count = 0
    /\ task = <<>>
    /\ holds = <<>>
    /\ recent = <<>>

InitRL ==
    RLInit /\ ValIdle /\ ScanIdle /\ StoreIdle
        /\ ThreadsIdle /\ FpIdle /\ ProgIdle /\ ExtIdle
InitBackoff ==
    BackoffInit /\ ValIdle /\ ScanIdle /\ StoreIdle
        /\ ThreadsIdle /\ FpIdle /\ ProgIdle /\ ExtIdle
InitObservers ==
    /\ ObserversInit
    /\ RLIdle /\ ValIdle /\ ScanIdle /\ StoreIdle
    /\ ThreadsIdle /\ FpIdle /\ PBIdle /\ LWIdle /\ CMIdle
InitParallel ==
    /\ ProcessBatchInit
    /\ RLIdle /\ ValIdle /\ ScanIdle /\ StoreIdle
    /\ ThreadsIdle /\ FpIdle /\ ProgIdle /\ SeenIdle /\ LWIdle /\ CMIdle
InitManager ==
    /\ ManagerInit
    /\ RLIdle /\ ValIdle /\ ScanIdle /\ StoreIdle
    /\ ThreadsIdle /\ FpIdle /\ ProgIdle /\ SeenIdle /\ PBIdle /\ LWIdle
InitWrapper ==
    /\ WrapperInit
    /\ RLIdle /\ ValIdle /\ ScanIdle /\ StoreIdle
    /\ ThreadsIdle /\ FpIdle /\ ProgIdle /\ SeenIdle /\ PBIdle /\ CMIdle
InitRLWindow ==
    RLWindowInit /\ ValIdle /\ ScanIdle /\ StoreIdle
        /\ ThreadsIdle /\ FpIdle /\ ProgIdle /\ ExtIdle
InitVal ==
    ValInit /\ VBPIdle /\ RLIdle /\ ScanIdle /\ StoreIdle
        /\ ThreadsIdle /\ FpIdle /\ ProgIdle /\ ExtIdle
InitLLM ==
    LLMInit /\ VBPIdle /\ RLIdle /\ ScanIdle /\ StoreIdle
        /\ ThreadsIdle /\ FpIdle /\ ProgIdle /\ ExtIdle
InitVBP ==
    VBPInit /\ BatchesIdle /\ CacheIdle /\ RLIdle /\ ScanIdle /\ StoreIdle
        /\ ThreadsIdle /\ FpIdle /\ ProgIdle /\ ExtIdle
InitScan ==
    /\ ScanInit
    /\ ai = <<>>
    /\ BatchesIdle
    /\ yieldq = <<>>
    /\ validated = <<>>
    /\ mainpc = "start"
    /\ CacheIdle
    /\ VBPIdle
    /\ RLIdle
    /\ StoreIdle
    /\ ThreadsIdle /\ FpIdle /\ ProgIdle /\ ExtIdle
InitCacheSize ==
    /\ SizeInit
    /\ db = <<>>
    /\ others = <<>>
    /\ now = 0
    /\ findings = <<>>
    /\ vcfg = CHOOSE c \in ValidatorConfig({DefaultBackoff}) : TRUE
    /\ ai = <<>>
    /\ BatchesIdle
    /\ yieldq = <<>>
    /\ validated = <<>>
    /\ mainpc = "start"
    /\ CacheIdle
    /\ VBPIdle
    /\ RLIdle
    /\ ScanIdle
    /\ ThreadsIdle /\ FpIdle /\ ProgIdle /\ ExtIdle
InitCache ==
    /\ CacheInit
    /\ findings = <<>>
    /\ vcfg = CHOOSE c \in ValidatorConfig({DefaultBackoff}) : TRUE
    /\ ai = <<>>
    /\ BatchesIdle
    /\ yieldq = <<>>
    /\ validated = <<>>
    /\ mainpc = "start"
    /\ VBPIdle
    /\ RLIdle
    /\ ScanIdle
    /\ ThreadsIdle /\ FpIdle /\ ProgIdle /\ ExtIdle
InitCacheThreads ==
    /\ ThreadsInit
    /\ findings = <<>>
    /\ vcfg = CHOOSE c \in ValidatorConfig({DefaultBackoff}) : TRUE
    /\ ai = <<>>
    /\ BatchesIdle
    /\ yieldq = <<>>
    /\ validated = <<>>
    /\ mainpc = "start"
    /\ VBPIdle
    /\ RLIdle
    /\ ScanIdle
    /\ FpIdle /\ ProgIdle /\ ExtIdle
InitHash ==
    /\ HashInit
    /\ ValIdle
    /\ RLIdle
    /\ ScanIdle
    /\ StoreIdle
    /\ ThreadsIdle /\ ProgIdle /\ ExtIdle
InitTracker ==
    /\ TrackerInit
    /\ ValIdle
    /\ RLIdle
    /\ ScanIdle
    /\ StoreIdle
    /\ ThreadsIdle /\ FpIdle /\ ExtIdle

SpecRL == InitRL /\ [][RLNext]_vars
SpecBackoff == InitBackoff /\ [][BackoffNext]_vars
SpecRLWindow == InitRLWindow /\ [][RLNext]_vars
SpecVal == InitVal /\ [][ValNext]_vars
SpecLLM == InitLLM /\ [][ValNext]_vars
SpecVBP == InitVBP /\ [][VBPNext]_vars
SpecScan == InitScan /\ [][ScanNext]_vars
\* The event loop runs the background task to its end.
SpecScanFair == InitScan /\ [][ScanNext]_vars /\ WF_vars(RunScan)
SpecCache == InitCache /\ [][CacheNext]_vars
SpecCacheSize == InitCacheSize /\ [][SizeNext]_vars
SpecCacheThreads == InitCacheThreads /\ [][ThreadsNext]_vars
SpecHash == InitHash /\ [][HashNext]_vars
SpecTracker == InitTracker /\ [][TrackerNext]_vars
SpecObservers == InitObservers /\ [][ObserversNext]_vars
SpecParallel == InitParallel /\ [][ParallelNext]_vars
SpecWrapper == InitWrapper /\ [][WrapperNext]_vars
SpecManager == InitManager /\ [][ManagerNext]_vars

====
